---- MODULE Spec2Model ----
(***************************************************************************)
(* Session / voting state machine of the listening-party worker            *)
(* (src/src/server.js, lines 1-832).  Every request handler reads and      *)
(* writes the key-value store env.DB; the model keeps the store as the     *)
(* function DB and translates each handler into one operator that maps the *)
(* store before the request to the store after it and the response.        *)
(***************************************************************************)
EXTENDS Integers, Sequences, FiniteSets, TLC

VARIABLES DB, last, snapshot, late, tally, accepted, kicked, seeded, played, rejoined,
          frames, reads, arrived, rounds

\* the requests that are being handled at the same time, for the claims about
\* interleaved requests: see SpecRace
inFlight == <<frames, reads, arrived, rounds>>

vars == <<DB, last, snapshot, late, tally, accepted, kicked, seeded, played, rejoined,
          inFlight>>

(***************************************************************************)
(* Bounds of the model.                                                    *)
(***************************************************************************)
\* longest playlist the catalog returns
MaxQueue == 2
\* requests accepted between two session-starts
MaxRequests == 6
\* tracks in the History a session-end summarises
MaxTracks == 3
\* eligible voters of a track in that History
MaxSeats == 2
\* requests that arrive while others are in flight
MaxArrivals == 3

(***************************************************************************)
(* Stored values.  env.DB.get returns null for a missing key and the       *)
(* stored string otherwise; a string is either a literal ('true', 'false', *)
(* '') or the JSON.stringify of a value.                                   *)
(***************************************************************************)
Null == [null |-> TRUE]
Lit(s) == [str |-> s]
Json(v) == [json |-> v]

\* JavaScript truthiness of a value returned by env.DB.get
Truthy(s) == s # Null /\ s # Lit("")

\* str ? JSON.parse(str) : dflt
ParseOr(s, dflt) == IF Truthy(s) THEN s.json ELSE dflt

Keys == {"SESSION_ACTIVE", "QUEUE", "CURRENT_SONG", "SESSION_PARTICIPANTS",
         "ELIGIBLE_VOTERS", "VOTED_USERS", "HISTORY"}

get(db, k) == db[k]
put(db, k, v) == [db EXCEPT ![k] = v]
delete(db, k) == [db EXCEPT ![k] = Null]

(***************************************************************************)
(* Users, tracks and the inputs of the requests.                           *)
(***************************************************************************)
MANAGER_USER_ID == "A"
Users == {"A", "B"}

VidX == "XXXXXXXXXXX"
VidY == "YYYYYYYYYYY"
VideoIds == {VidX, VidY}

\* title the catalog holds for a video
CatalogTitle(id) == IF id = VidX THEN "Song X" ELSE "Song Y"

\* a url is given by what the regular expression of getVideoId / getPlaylistId
\* finds in it: whether it matches and the text of the capturing group
VideoUrls == {[match |-> TRUE, group |-> VidX], [match |-> TRUE, group |-> VidY],
              [match |-> TRUE, group |-> "short"], [match |-> FALSE, group |-> ""]}
PlaylistUrls == {[match |-> TRUE, group |-> "PL1"], [match |-> FALSE, group |-> ""]}

NoId == ""
getVideoId(url) == IF url.match /\ Len(url.group) = 11 THEN url.group ELSE NoId
getPlaylistId(url) == IF url.match /\ url.group # "" THEN url.group ELSE NoId

\* getVideoTitle: the catalog's title, or the placeholder when the lookup fails
VideoTitles(id) == {CatalogTitle(id), "Unknown Song"}

\* one element of the array getPlaylistItems returns
PlaylistItem(id) == [title |-> CatalogTitle(id), id |-> id, thumbnail |-> "thumb"]

\* the playlist the catalog holds, as far as the model follows it
CatalogPlaylist(n) == [i \in 1..n |-> PlaylistItem(IF i % 2 = 1 THEN VidX ELSE VidY)]

\* what getPlaylistItems can return: [] when data.items is missing
PlaylistResults == {CatalogPlaylist(n) : n \in 0..MaxQueue}

isManager(caller) == caller = MANAGER_USER_ID

\* managerOnlyCommands without KICK_COMMAND.name
managerOnlyCommands_NoKick == {"session-start", "session-end", "vote-start", "vote-end",
                               "vote-next", "participants"}

managerOnlyCommands == {"session-start", "session-end", "vote-start", "vote-end",
                        "vote-next", "kick", "participants"}

(***************************************************************************)
(* Array and object helpers.                                               *)
(***************************************************************************)
includes(arr, x) == \E i \in 1..Len(arr) : arr[i] = x

\* arr.filter(id => id !== x)
RECURSIVE filterOut(_, _)
filterOut(arr, x) ==
  IF arr = <<>> THEN <<>>
  ELSE IF Head(arr) = x THEN filterOut(Tail(arr), x)
       ELSE <<Head(arr)>> \o filterOut(Tail(arr), x)

\* the object {} and the delete / assignment of one property
EmptyObject == [u \in {} |-> 0]
deleteProp(obj, k) == [u \in (DOMAIN obj) \ {k} |-> obj[u]]
setProp(obj, k, v) == [u \in (DOMAIN obj) \cup {k} |-> IF u = k THEN v ELSE obj[u]]

\* Object.values(obj).reduce((sum, points) => sum + points, 0)
RECURSIVE sumValues(_)
sumValues(obj) ==
  IF DOMAIN obj = {} THEN 0
  ELSE LET k == CHOOSE u \in DOMAIN obj : TRUE
       IN obj[k] + sumValues(deleteProp(obj, k))

\* the result of a handler: the store it leaves and the response it returns
Result(db, resp) == [db |-> db, resp |-> resp]
Reply(kind) == [kind |-> kind]

\* the managerOnlyCommands check that precedes the command switch
Forbidden(commandName, caller) ==
  commandName \in managerOnlyCommands /\ ~isManager(caller)

(***************************************************************************)
(* session-start                                                           *)
(***************************************************************************)
\* resetSession without the put of SESSION_PARTICIPANTS
resetSession_KeepsParticipants(db, initialQueue) ==
  LET d1 == put(db, "SESSION_ACTIVE", Lit("true"))
      d2 == delete(d1, "CURRENT_SONG")
      d3 == delete(d2, "VOTED_USERS")
      d4 == delete(d3, "ELIGIBLE_VOTERS")
      d5 == delete(d4, "HISTORY")
      d7 == put(d5, "QUEUE", Json(initialQueue))
  IN d7

\* resetSession without the delete of HISTORY
resetSession_KeepsHistory(db, initialQueue) ==
  LET d1 == put(db, "SESSION_ACTIVE", Lit("true"))
      d2 == delete(d1, "CURRENT_SONG")
      d3 == delete(d2, "VOTED_USERS")
      d4 == delete(d3, "ELIGIBLE_VOTERS")
      d6 == put(d4, "SESSION_PARTICIPANTS", Json(<<>>))
      d7 == put(d6, "QUEUE", Json(initialQueue))
  IN d7

\* the writes of a session-start that passed its checks
resetSession(db, initialQueue) ==
  LET d1 == put(db, "SESSION_ACTIVE", Lit("true"))
      d2 == delete(d1, "CURRENT_SONG")
      d3 == delete(d2, "VOTED_USERS")
      d4 == delete(d3, "ELIGIBLE_VOTERS")
      d5 == delete(d4, "HISTORY")
      d6 == put(d5, "SESSION_PARTICIPANTS", Json(<<>>))
      d7 == put(d6, "QUEUE", Json(initialQueue))
  IN d7

\* SESSION_START_COMMAND that resets the store before it looks at the playlist
SESSION_START_COMMAND_ResetsFirst(db, caller, option, items) ==
  IF Forbidden("session-start", caller) THEN Result(db, Reply("Forbidden"))
  ELSE LET session_active == get(db, "SESSION_ACTIVE") IN
    IF session_active = Lit("true") THEN Result(db, Reply("AlreadyActive"))
    ELSE LET d0 == resetSession(db, <<>>) IN
      IF option # <<>> /\ getPlaylistId(option[1]) = NoId
        THEN Result(d0, Reply("InvalidReference"))
      ELSE IF option # <<>> /\ Len(items) = 0
        THEN Result(d0, Reply("EmptyOrInaccessible"))
      ELSE LET initialQueue == IF option # <<>> THEN items ELSE <<>>
           IN Result(resetSession(db, initialQueue),
                     [kind |-> "SessionStarted", queueSize |-> Len(initialQueue)])

\* option: <<>> when playlist_url is not given, <<url>> otherwise;
\* items: what getPlaylistItems returns for the url
SESSION_START_COMMAND(db, caller, option, items) ==
  IF Forbidden("session-start", caller) THEN Result(db, Reply("Forbidden"))
  ELSE LET session_active == get(db, "SESSION_ACTIVE") IN
    IF session_active = Lit("true") THEN Result(db, Reply("AlreadyActive"))
    ELSE IF option # <<>> /\ getPlaylistId(option[1]) = NoId
      THEN Result(db, Reply("InvalidReference"))
    ELSE IF option # <<>> /\ Len(items) = 0
      THEN Result(db, Reply("EmptyOrInaccessible"))
    ELSE LET initialQueue == IF option # <<>> THEN items ELSE <<>>
         IN Result(resetSession(db, initialQueue),
                   [kind |-> "SessionStarted", queueSize |-> Len(initialQueue)])

(***************************************************************************)
(* vote-start                                                              *)
(***************************************************************************)
\* the value written to CURRENT_SONG
SongData(title, id) == [title |-> title, id |-> id, votes |-> 0]

\* the response that shows the track and its two vote buttons
NowPlaying(title, id, remaining) ==
  [kind |-> "NowPlaying", title |-> title, id |-> id, remaining |-> remaining]

\* saveCurrentSong that writes no participant to ELIGIBLE_VOTERS
saveCurrentSong_NoSnapshot(db, title, id, participants) ==
  LET d1 == put(db, "CURRENT_SONG", Json(SongData(title, id)))
      d2 == put(d1, "VOTED_USERS", Json(EmptyObject))
      d3 == put(d2, "ELIGIBLE_VOTERS", Json(<<>>))
  IN d3

\* saveCurrentSong without the reset of VOTED_USERS
saveCurrentSong_KeepsVotes(db, title, id, participants) ==
  LET d1 == put(db, "CURRENT_SONG", Json(SongData(title, id)))
      d3 == put(d1, "ELIGIBLE_VOTERS", Json(participants))
  IN d3

\* the three writes that open the vote on a track
saveCurrentSong(db, title, id, participants) ==
  LET d1 == put(db, "CURRENT_SONG", Json(SongData(title, id)))
      d2 == put(d1, "VOTED_USERS", Json(EmptyObject))
      d3 == put(d2, "ELIGIBLE_VOTERS", Json(participants))
  IN d3

\* title: what getVideoTitle returns for the video
VOTE_START_COMMAND(db, caller, url, title) ==
  IF Forbidden("vote-start", caller) THEN Result(db, Reply("Forbidden"))
  ELSE LET session_active == get(db, "SESSION_ACTIVE") IN
    IF session_active = Lit("false") THEN Result(db, Reply("NotActive"))
    ELSE LET songDataStr == get(db, "CURRENT_SONG") IN
      IF Truthy(songDataStr) THEN Result(db, Reply("VoteInProgress"))
      ELSE LET vidId == getVideoId(url) IN
        IF vidId = NoId THEN Result(db, Reply("UnresolvableUrl"))
        ELSE LET participants == ParseOr(get(db, "SESSION_PARTICIPANTS"), <<>>)
             IN Result(saveCurrentSong(db, title, vidId, participants),
                       NowPlaying(title, vidId, 0))

(***************************************************************************)
(* vote-next                                                               *)
(***************************************************************************)
\* VOTE_NEXT_COMMAND that resets the votes before it looks at the queue
VOTE_NEXT_COMMAND_ResetsVotes(db, caller) ==
  IF Forbidden("vote-next", caller) THEN Result(db, Reply("Forbidden"))
  ELSE LET session_active == get(db, "SESSION_ACTIVE") IN
    IF session_active # Lit("true") THEN Result(db, Reply("NotActive"))
    ELSE LET currentSong == get(db, "CURRENT_SONG") IN
      IF Truthy(currentSong) THEN Result(db, Reply("VoteInProgress"))
      ELSE LET queue == ParseOr(get(db, "QUEUE"), <<>>)
               d0 == put(db, "VOTED_USERS", Json(EmptyObject))
           IN
        IF Len(queue) = 0 THEN Result(d0, Reply("QueueEmpty"))
        ELSE LET nextSong == Head(queue)
                 shifted == Tail(queue)
                 remaining == Len(shifted)
                 d1 == put(d0, "QUEUE", Json(shifted))
                 participants == ParseOr(get(d1, "SESSION_PARTICIPANTS"), <<>>)
             IN Result(saveCurrentSong(d1, nextSong.title, nextSong.id, participants),
                       NowPlaying(nextSong.title, nextSong.id, remaining))

\* VOTE_NEXT_COMMAND with queue.pop() in the place of queue.shift()
VOTE_NEXT_COMMAND_PopsLast(db, caller) ==
  IF Forbidden("vote-next", caller) THEN Result(db, Reply("Forbidden"))
  ELSE LET session_active == get(db, "SESSION_ACTIVE") IN
    IF session_active # Lit("true") THEN Result(db, Reply("NotActive"))
    ELSE LET currentSong == get(db, "CURRENT_SONG") IN
      IF Truthy(currentSong) THEN Result(db, Reply("VoteInProgress"))
      ELSE LET queue == ParseOr(get(db, "QUEUE"), <<>>) IN
        IF Len(queue) = 0 THEN Result(db, Reply("QueueEmpty"))
        ELSE LET nextSong == queue[Len(queue)]
                 shifted == SubSeq(queue, 1, Len(queue) - 1)
                 remaining == Len(shifted)
                 d1 == put(db, "QUEUE", Json(shifted))
                 participants == ParseOr(get(d1, "SESSION_PARTICIPANTS"), <<>>)
             IN Result(saveCurrentSong(d1, nextSong.title, nextSong.id, participants),
                       NowPlaying(nextSong.title, nextSong.id, remaining))

VOTE_NEXT_COMMAND(db, caller) ==
  IF Forbidden("vote-next", caller) THEN Result(db, Reply("Forbidden"))
  ELSE LET session_active == get(db, "SESSION_ACTIVE") IN
    IF session_active # Lit("true") THEN Result(db, Reply("NotActive"))
    ELSE LET currentSong == get(db, "CURRENT_SONG") IN
      IF Truthy(currentSong) THEN Result(db, Reply("VoteInProgress"))
      ELSE LET queue == ParseOr(get(db, "QUEUE"), <<>>) IN
        IF Len(queue) = 0 THEN Result(db, Reply("QueueEmpty"))
        ELSE LET nextSong == Head(queue)
                 shifted == Tail(queue)
                 remaining == Len(shifted)
                 d1 == put(db, "QUEUE", Json(shifted))
                 participants == ParseOr(get(d1, "SESSION_PARTICIPANTS"), <<>>)
             IN Result(saveCurrentSong(d1, nextSong.title, nextSong.id, participants),
                       NowPlaying(nextSong.title, nextSong.id, remaining))

(***************************************************************************)
(* vote-end                                                                *)
(***************************************************************************)
\* HISTORY is a JSON object keyed by video id; its properties keep their
\* insertion order, so it is modelled as the sequence of its values, each
\* with its key in the field id
hasEntry(history, id) == \E i \in 1..Len(history) : history[i].id = id

\* mergeHistory that assigns the round's numbers to an existing entry
\* instead of adding them
mergeHistory_Overwrites(history, songData, totalPoints, voterCount, participantCount) ==
  IF hasEntry(history, songData.id)
  THEN [i \in 1..Len(history) |->
          IF history[i].id = songData.id
          THEN [history[i] EXCEPT !.totalPoints = totalPoints,
                                  !.voterCount = voterCount,
                                  !.participantCount = participantCount]
          ELSE history[i]]
  ELSE Append(history, [id |-> songData.id, title |-> songData.title,
                        totalPoints |-> totalPoints, voterCount |-> voterCount,
                        participantCount |-> participantCount])

\* history[id].x += ... for an existing entry, history[id] = {...} otherwise
mergeHistory(history, songData, totalPoints, voterCount, participantCount) ==
  IF hasEntry(history, songData.id)
  THEN [i \in 1..Len(history) |->
          IF history[i].id = songData.id
          THEN [history[i] EXCEPT !.totalPoints = @ + totalPoints,
                                  !.voterCount = @ + voterCount,
                                  !.participantCount = @ + participantCount]
          ELSE history[i]]
  ELSE Append(history, [id |-> songData.id, title |-> songData.title,
                        totalPoints |-> totalPoints, voterCount |-> voterCount,
                        participantCount |-> participantCount])

\* highApproval with average >= 1
highApproval_AtLeastOne(totalPoints, participantCount) ==
  participantCount > 0 /\ totalPoints >= participantCount

\* average > 1, for average = participantCount > 0 ? totalPoints / participantCount : 0
highApproval(totalPoints, participantCount) ==
  participantCount > 0 /\ totalPoints > participantCount

\* average.toFixed(2), in hundredths
toFixed2(totalPoints, participantCount) ==
  IF participantCount > 0
  THEN (200 * totalPoints + participantCount) \div (2 * participantCount)
  ELSE 0

\* VOTE_END_COMMAND that also empties VOTED_USERS
VOTE_END_COMMAND_ClearsVotes(db, caller) ==
  IF Forbidden("vote-end", caller) THEN Result(db, Reply("Forbidden"))
  ELSE LET songDataStr == get(db, "CURRENT_SONG") IN
    IF ~Truthy(songDataStr) THEN Result(db, Reply("NoCurrentSong"))
    ELSE LET songData == songDataStr.json
             votedUsers == ParseOr(get(db, "VOTED_USERS"), EmptyObject)
             eligibleVoters == ParseOr(get(db, "ELIGIBLE_VOTERS"), <<>>)
             totalPoints == sumValues(votedUsers)
             voterCount == Cardinality(DOMAIN votedUsers)
             participantCount == Len(eligibleVoters)
             history == ParseOr(get(db, "HISTORY"), <<>>)
             merged == mergeHistory(history, songData, totalPoints, voterCount,
                                    participantCount)
             d1 == put(db, "HISTORY", Json(merged))
             d2 == put(put(d1, "CURRENT_SONG", Lit("")), "VOTED_USERS", Json(EmptyObject))
         IN Result(d2, [kind |-> "VoteResult", title |-> songData.title,
                        totalPoints |-> totalPoints, voterCount |-> voterCount,
                        participantCount |-> participantCount,
                        average |-> toFixed2(totalPoints, participantCount),
                        high |-> highApproval(totalPoints, participantCount)])

VOTE_END_COMMAND(db, caller) ==
  IF Forbidden("vote-end", caller) THEN Result(db, Reply("Forbidden"))
  ELSE LET songDataStr == get(db, "CURRENT_SONG") IN
    IF ~Truthy(songDataStr) THEN Result(db, Reply("NoCurrentSong"))
    ELSE LET songData == songDataStr.json
             votedUsers == ParseOr(get(db, "VOTED_USERS"), EmptyObject)
             eligibleVoters == ParseOr(get(db, "ELIGIBLE_VOTERS"), <<>>)
             totalPoints == sumValues(votedUsers)
             voterCount == Cardinality(DOMAIN votedUsers)
             participantCount == Len(eligibleVoters)
             history == ParseOr(get(db, "HISTORY"), <<>>)
             merged == mergeHistory(history, songData, totalPoints, voterCount,
                                    participantCount)
             d1 == put(db, "HISTORY", Json(merged))
             d2 == put(d1, "CURRENT_SONG", Lit(""))
         IN Result(d2, [kind |-> "VoteResult", title |-> songData.title,
                        totalPoints |-> totalPoints, voterCount |-> voterCount,
                        participantCount |-> participantCount,
                        average |-> toFixed2(totalPoints, participantCount),
                        high |-> highApproval(totalPoints, participantCount)])

(***************************************************************************)
(* session-end                                                             *)
(***************************************************************************)
\* avgGreater that also holds of equal averages
avgGreater_OrEqual(b, a) ==
  LET numA == IF a.participantCount > 0 THEN a.totalPoints ELSE 0
      denA == IF a.participantCount > 0 THEN a.participantCount ELSE 1
      numB == IF b.participantCount > 0 THEN b.totalPoints ELSE 0
      denB == IF b.participantCount > 0 THEN b.participantCount ELSE 1
  IN numB * denA >= numA * denB

\* the comparator of the summary sort is negative (a stays before b) or zero
\* unless avgB - avgA > 0
avgGreater(b, a) ==
  LET numA == IF a.participantCount > 0 THEN a.totalPoints ELSE 0
      denA == IF a.participantCount > 0 THEN a.participantCount ELSE 1
      numB == IF b.participantCount > 0 THEN b.totalPoints ELSE 0
      denB == IF b.participantCount > 0 THEN b.participantCount ELSE 1
  IN numB * denA > numA * denB

\* insert song behind every element it does not beat (stable)
RECURSIVE insertSorted(_, _)
insertSorted(sorted, song) ==
  IF sorted = <<>> THEN <<song>>
  ELSE IF avgGreater(song, Head(sorted)) THEN <<song>> \o sorted
       ELSE <<Head(sorted)>> \o insertSorted(Tail(sorted), song)

\* Object.values(history).sort(...): Array.prototype.sort is stable
RECURSIVE sortedSongs(_)
sortedSongs(songs) ==
  IF songs = <<>> THEN <<>>
  ELSE insertSorted(sortedSongs(SubSeq(songs, 1, Len(songs) - 1)), songs[Len(songs)])

summaryLine(song) ==
  [title |-> song.title,
   average |-> toFixed2(song.totalPoints, song.participantCount),
   voterCount |-> song.voterCount]

SESSION_END_COMMAND(db, caller) ==
  IF Forbidden("session-end", caller) THEN Result(db, Reply("Forbidden"))
  ELSE LET session_active == get(db, "SESSION_ACTIVE") IN
    IF session_active = Lit("false") THEN Result(db, Reply("NotActive"))
    ELSE LET songDataStr == get(db, "CURRENT_SONG") IN
      IF Truthy(songDataStr) THEN Result(db, Reply("VoteInProgress"))
      ELSE LET d1 == put(db, "SESSION_ACTIVE", Lit("false"))
               history == ParseOr(get(d1, "HISTORY"), <<>>)
               sorted == sortedSongs(history)
               summaryLines == [i \in 1..Len(sorted) |-> summaryLine(sorted[i])]
           IN Result(d1, [kind |-> "SessionEnded", summary |-> summaryLines])

(***************************************************************************)
(* enter, exit, kick, participants                                         *)
(***************************************************************************)
\* ENTER_COMMAND with participants.unshift(userId) in the place of push
ENTER_COMMAND_Unshifts(db, userId) ==
  LET session_active == get(db, "SESSION_ACTIVE") IN
  IF session_active # Lit("true") THEN Result(db, Reply("NotActive"))
  ELSE LET participants == ParseOr(get(db, "SESSION_PARTICIPANTS"), <<>>) IN
    IF includes(participants, userId) THEN Result(db, Reply("AlreadyJoined"))
    ELSE LET pushed == <<userId>> \o participants
             d1 == put(db, "SESSION_PARTICIPANTS", Json(pushed))
         IN Result(d1, [kind |-> "Joined", size |-> Len(pushed)])

\* ENTER_COMMAND that pushes and saves before it looks for the user
ENTER_COMMAND_SavesFirst(db, userId) ==
  LET session_active == get(db, "SESSION_ACTIVE") IN
  IF session_active # Lit("true") THEN Result(db, Reply("NotActive"))
  ELSE LET participants == ParseOr(get(db, "SESSION_PARTICIPANTS"), <<>>)
           pushed == Append(participants, userId)
           d1 == put(db, "SESSION_PARTICIPANTS", Json(pushed))
       IN IF includes(participants, userId) THEN Result(d1, Reply("AlreadyJoined"))
          ELSE Result(d1, [kind |-> "Joined", size |-> Len(pushed)])

\* ENTER_COMMAND that makes the user eligible for the current track
ENTER_COMMAND_RestoresEligibility(db, userId) ==
  LET session_active == get(db, "SESSION_ACTIVE") IN
  IF session_active # Lit("true") THEN Result(db, Reply("NotActive"))
  ELSE LET participants == ParseOr(get(db, "SESSION_PARTICIPANTS"), <<>>) IN
    IF includes(participants, userId) THEN Result(db, Reply("AlreadyJoined"))
    ELSE LET pushed == Append(participants, userId)
             d1 == put(db, "SESSION_PARTICIPANTS", Json(pushed))
             eligible == ParseOr(get(db, "ELIGIBLE_VOTERS"), <<>>)
             d2 == IF Truthy(get(db, "CURRENT_SONG"))
                   THEN put(d1, "ELIGIBLE_VOTERS", Json(Append(eligible, userId)))
                   ELSE d1
         IN Result(d2, [kind |-> "Joined", size |-> Len(pushed)])

ENTER_COMMAND(db, userId) ==
  LET session_active == get(db, "SESSION_ACTIVE") IN
  IF session_active # Lit("true") THEN Result(db, Reply("NotActive"))
  ELSE LET participants == ParseOr(get(db, "SESSION_PARTICIPANTS"), <<>>) IN
    IF includes(participants, userId) THEN Result(db, Reply("AlreadyJoined"))
    ELSE LET pushed == Append(participants, userId)
             d1 == put(db, "SESSION_PARTICIPANTS", Json(pushed))
         IN Result(d1, [kind |-> "Joined", size |-> Len(pushed)])

\* removeUser without the removal from ELIGIBLE_VOTERS
removeUser_KeepsEligible(db, participants, userId) ==
  LET d1 == put(db, "SESSION_PARTICIPANTS", Json(filterOut(participants, userId)))
      votedUsersStr == get(d1, "VOTED_USERS")
      d3 == IF Truthy(votedUsersStr) /\ userId \in DOMAIN votedUsersStr.json
            THEN put(d1, "VOTED_USERS", Json(deleteProp(votedUsersStr.json, userId)))
            ELSE d1
  IN d3

\* removeUser without the removal from VOTED_USERS
removeUser_KeepsVote(db, participants, userId) ==
  LET d1 == put(db, "SESSION_PARTICIPANTS", Json(filterOut(participants, userId)))
      eligibleVotersStr == get(d1, "ELIGIBLE_VOTERS")
      d2 == IF Truthy(eligibleVotersStr)
            THEN put(d1, "ELIGIBLE_VOTERS", Json(filterOut(eligibleVotersStr.json, userId)))
            ELSE d1
  IN d2

\* the three removals that exit and kick share: each key is read after the
\* write of the one before it
removeUser(db, participants, userId) ==
  LET d1 == put(db, "SESSION_PARTICIPANTS", Json(filterOut(participants, userId)))
      eligibleVotersStr == get(d1, "ELIGIBLE_VOTERS")
      d2 == IF Truthy(eligibleVotersStr)
            THEN put(d1, "ELIGIBLE_VOTERS", Json(filterOut(eligibleVotersStr.json, userId)))
            ELSE d1
      votedUsersStr == get(d2, "VOTED_USERS")
      d3 == IF Truthy(votedUsersStr) /\ userId \in DOMAIN votedUsersStr.json
            THEN put(d2, "VOTED_USERS", Json(deleteProp(votedUsersStr.json, userId)))
            ELSE d2
  IN d3

\* EXIT_COMMAND that removes the user from SESSION_PARTICIPANTS only
EXIT_COMMAND_OnlyParticipants(db, userId) ==
  LET session_active == get(db, "SESSION_ACTIVE") IN
  IF session_active # Lit("true") THEN Result(db, Reply("NotActive"))
  ELSE LET participants == ParseOr(get(db, "SESSION_PARTICIPANTS"), <<>>) IN
    IF ~includes(participants, userId) THEN Result(db, Reply("NotJoined"))
    ELSE Result(put(db, "SESSION_PARTICIPANTS", Json(filterOut(participants, userId))),
                Reply("Left"))

EXIT_COMMAND(db, userId) ==
  LET session_active == get(db, "SESSION_ACTIVE") IN
  IF session_active # Lit("true") THEN Result(db, Reply("NotActive"))
  ELSE LET participants == ParseOr(get(db, "SESSION_PARTICIPANTS"), <<>>) IN
    IF ~includes(participants, userId) THEN Result(db, Reply("NotJoined"))
    ELSE Result(removeUser(db, participants, userId), Reply("Left"))

KICK_COMMAND(db, caller, targetUserId) ==
  IF Forbidden("kick", caller) THEN Result(db, Reply("Forbidden"))
  ELSE LET session_active == get(db, "SESSION_ACTIVE") IN
    IF session_active # Lit("true") THEN Result(db, Reply("NotActive"))
    ELSE LET participants == ParseOr(get(db, "SESSION_PARTICIPANTS"), <<>>) IN
      IF ~includes(participants, targetUserId) THEN Result(db, Reply("TargetNotJoined"))
      ELSE Result(removeUser(db, participants, targetUserId), Reply("Kicked"))

PARTICIPANTS_COMMAND(db, caller) ==
  IF Forbidden("participants", caller) THEN Result(db, Reply("Forbidden"))
  ELSE LET session_active == get(db, "SESSION_ACTIVE") IN
    IF session_active # Lit("true") THEN Result(db, Reply("NotActive"))
    ELSE LET participants == ParseOr(get(db, "SESSION_PARTICIPANTS"), <<>>) IN
      IF Len(participants) = 0 THEN Result(db, Reply("NoParticipants"))
      ELSE Result(db, [kind |-> "ParticipantList", list |-> participants])

(***************************************************************************)
(* vote buttons                                                            *)
(***************************************************************************)
\* a custom_id is given by what /^vote_([12])_(.+)$/ finds in it: whether it
\* matches, parseInt of the first group and the second group
CustomIds == {[match |-> TRUE, points |-> p, vid |-> v] : p \in {1, 2}, v \in VideoIds}
             \cup {[match |-> FALSE, points |-> 0, vid |-> NoId]}

\* toggleVote that always records the vote
toggleVote_NeverRetracts(votedUsers, userId, points) ==
  setProp(votedUsers, userId, points)

\* toggleVote that adds the points of a press to the points already recorded
toggleVote_AddsPoints(votedUsers, userId, points) ==
  IF userId \in DOMAIN votedUsers /\ votedUsers[userId] = points
  THEN deleteProp(votedUsers, userId)
  ELSE setProp(votedUsers, userId,
               IF userId \in DOMAIN votedUsers THEN votedUsers[userId] + points ELSE points)

\* votedUsers after the press of the button worth points by userId
toggleVote(votedUsers, userId, points) ==
  IF userId \in DOMAIN votedUsers /\ votedUsers[userId] = points
  THEN deleteProp(votedUsers, userId)
  ELSE setProp(votedUsers, userId, points)

\* VoteButton that looks in ELIGIBLE_VOTERS before SESSION_PARTICIPANTS
VoteButton_EligibilityFirst(db, userId, customId) ==
  IF ~customId.match THEN Result(db, Reply("Unknown"))
  ELSE LET points == customId.points
           buttonVidId == customId.vid
           active == get(db, "SESSION_ACTIVE")
       IN
    IF active # Lit("true") THEN Result(db, Reply("SessionClosed"))
    ELSE LET currentSongStr == get(db, "CURRENT_SONG") IN
      IF ~Truthy(currentSongStr) \/ currentSongStr.json.id # buttonVidId
      THEN Result(db, Reply("VoteClosed"))
      ELSE LET eligibleVoters == ParseOr(get(db, "ELIGIBLE_VOTERS"), <<>>) IN
        IF ~includes(eligibleVoters, userId) THEN Result(db, Reply("NotEligible"))
        ELSE LET participants == ParseOr(get(db, "SESSION_PARTICIPANTS"), <<>>) IN
          IF ~includes(participants, userId) THEN Result(db, Reply("NotAParticipant"))
          ELSE LET votedUsers == ParseOr(get(db, "VOTED_USERS"), EmptyObject)
                   retract == userId \in DOMAIN votedUsers /\ votedUsers[userId] = points
                   d1 == put(db, "VOTED_USERS", Json(toggleVote(votedUsers, userId, points)))
               IN Result(d1, IF retract THEN [kind |-> "VoteRetracted", points |-> points]
                                        ELSE [kind |-> "VoteCast", points |-> points])

\* VoteButton without the check of ELIGIBLE_VOTERS
VoteButton_SkipsEligibility(db, userId, customId) ==
  IF ~customId.match THEN Result(db, Reply("Unknown"))
  ELSE LET points == customId.points
           buttonVidId == customId.vid
           active == get(db, "SESSION_ACTIVE")
       IN
    IF active # Lit("true") THEN Result(db, Reply("SessionClosed"))
    ELSE LET currentSongStr == get(db, "CURRENT_SONG") IN
      IF ~Truthy(currentSongStr) \/ currentSongStr.json.id # buttonVidId
      THEN Result(db, Reply("VoteClosed"))
      ELSE LET participants == ParseOr(get(db, "SESSION_PARTICIPANTS"), <<>>) IN
        IF ~includes(participants, userId) THEN Result(db, Reply("NotAParticipant"))
        ELSE LET votedUsers == ParseOr(get(db, "VOTED_USERS"), EmptyObject)
                 retract == userId \in DOMAIN votedUsers /\ votedUsers[userId] = points
                 d1 == put(db, "VOTED_USERS", Json(toggleVote(votedUsers, userId, points)))
             IN Result(d1, IF retract THEN [kind |-> "VoteRetracted", points |-> points]
                                      ELSE [kind |-> "VoteCast", points |-> points])

VoteButton(db, userId, customId) ==
  IF ~customId.match THEN Result(db, Reply("Unknown"))
  ELSE LET points == customId.points
           buttonVidId == customId.vid
           active == get(db, "SESSION_ACTIVE")
       IN
    IF active # Lit("true") THEN Result(db, Reply("SessionClosed"))
    ELSE LET currentSongStr == get(db, "CURRENT_SONG") IN
      IF ~Truthy(currentSongStr) \/ currentSongStr.json.id # buttonVidId
      THEN Result(db, Reply("VoteClosed"))
      ELSE LET participants == ParseOr(get(db, "SESSION_PARTICIPANTS"), <<>>) IN
        IF ~includes(participants, userId) THEN Result(db, Reply("NotAParticipant"))
        ELSE LET eligibleVoters == ParseOr(get(db, "ELIGIBLE_VOTERS"), <<>>) IN
          IF ~includes(eligibleVoters, userId) THEN Result(db, Reply("NotEligible"))
          ELSE LET votedUsers == ParseOr(get(db, "VOTED_USERS"), EmptyObject)
                   retract == userId \in DOMAIN votedUsers /\ votedUsers[userId] = points
                   d1 == put(db, "VOTED_USERS", Json(toggleVote(votedUsers, userId, points)))
               IN Result(d1, IF retract THEN [kind |-> "VoteRetracted", points |-> points]
                                        ELSE [kind |-> "VoteCast", points |-> points])

(***************************************************************************)
(* The state machine: requests are handled one at a time, each handler     *)
(* running to its response.                                                *)
(*   DB        the key-value store                                         *)
(*   last      the last request that was not rejected, and its response    *)
(*   snapshot  the users read from SESSION_PARTICIPANTS by the vote-start  *)
(*             or vote-next that started the current track                 *)
(*   late      the participants whose enter was accepted while a track was *)
(*             current                                                     *)
(*   tally     for every track, the vote rounds closed by vote-end since   *)
(*             the last session-start: their number and the sums of the    *)
(*             points, the voters and the eligible voters at each vote-end *)
(*   accepted  the number of requests accepted since the last              *)
(*             session-start                                               *)
(*   kicked    the users kicked since the current track was started while  *)
(*             they were in ELIGIBLE_VOTERS with a vote in VOTED_USERS     *)
(*   seeded    the queue the last session-start wrote                      *)
(*   played    the tracks that vote-next has made current since the last   *)
(*             session-start, in the order of the requests                 *)
(*   rejoined  the participants of the snapshot who have left and entered  *)
(*             again since the current track was started                   *)
(***************************************************************************)
Range(arr) == {arr[i] : i \in 1..Len(arr)}

\* the responses that reject a request
Rejections == {"Forbidden", "AlreadyActive", "InvalidReference", "EmptyOrInaccessible",
               "NotActive", "VoteInProgress", "UnresolvableUrl", "QueueEmpty",
               "NoCurrentSong", "AlreadyJoined", "NotJoined", "TargetNotJoined",
               "SessionClosed", "VoteClosed", "NotAParticipant", "NotEligible",
               "Unknown"}

NoRounds == [id \in VideoIds |-> [rounds |-> 0, totalPoints |-> 0, voterCount |-> 0,
                                  participantCount |-> 0]]

\* a call to env.DB, and the position of a handler that has returned
Call(kind, key) == [kind |-> kind, key |-> key]
Done == Call("done", "")

NoMem == [none |-> TRUE]

\* the two requests that can be in flight together
Racers == {"p", "q"}

\* no request in flight
Idle == [req |-> [op |-> "none"], pc |-> Done, mem |-> NoMem, resp |-> Reply("none")]
NothingRead == [k \in Keys |-> Null]
NoMerges == [id \in VideoIds |-> 0]
\* requests are handled one at a time: nothing is kept of requests in flight
NoRace ==
  /\ frames = <<>>
  /\ reads = <<>>
  /\ arrived = 0
  /\ rounds = <<>>

Init ==
  /\ DB = [k \in Keys |-> Null]
  /\ last = [req |-> [op |-> "none"], resp |-> Reply("none")]
  /\ snapshot = {}
  /\ late = {}
  /\ tally = NoRounds
  /\ accepted = 0
  /\ kicked = {}
  /\ seeded = <<>>
  /\ played = <<>>
  /\ rejoined = {}
  /\ NoRace

RECURSIVE sumOver(_, _)
sumOver(S, f) ==
  IF S = {} THEN 0
  ELSE LET x == CHOOSE y \in S : TRUE IN f[x] + sumOver(S \ {x}, f)

\* the tally after a vote-end closes the round of the store db
closeRound(db) ==
  LET id == get(db, "CURRENT_SONG").json.id
      votes == ParseOr(get(db, "VOTED_USERS"), EmptyObject)
      eligible == ParseOr(get(db, "ELIGIBLE_VOTERS"), <<>>)
  IN [tally EXCEPT ![id] =
        [rounds |-> @.rounds + 1,
         totalPoints |-> @.totalPoints + sumOver(DOMAIN votes, votes),
         voterCount |-> @.voterCount + Cardinality(DOMAIN votes),
         participantCount |-> @.participantCount + Len(eligible)]]

\* one request req handled with result r
Handle(req, r) ==
  LET kind == r.resp.kind
      rejected == kind \in Rejections
  IN /\ (~rejected /\ kind # "SessionStarted") => accepted < MaxRequests
     /\ DB' = r.db
     /\ last' = IF rejected THEN last ELSE [req |-> req, resp |-> r.resp]
     /\ snapshot' = CASE kind = "NowPlaying" ->
                           Range(ParseOr(get(DB, "SESSION_PARTICIPANTS"), <<>>))
                      [] kind = "SessionStarted" -> {}
                      [] OTHER -> snapshot
     /\ late' = CASE kind = "Joined" /\ Truthy(get(DB, "CURRENT_SONG")) -> late \cup {req.user}
                  [] kind = "Left" -> late \ {req.user}
                  [] kind = "Kicked" -> late \ {req.target}
                  [] kind = "SessionStarted" -> {}
                  [] OTHER -> late
     /\ tally' = CASE kind = "VoteResult" -> closeRound(DB)
                   [] kind = "SessionStarted" -> NoRounds
                   [] OTHER -> tally
     /\ accepted' = CASE kind = "SessionStarted" -> 0
                      [] rejected -> accepted
                      [] OTHER -> accepted + 1
     /\ kicked' = CASE kind = "Kicked" /\ Truthy(get(DB, "CURRENT_SONG"))
                         /\ includes(ParseOr(get(DB, "ELIGIBLE_VOTERS"), <<>>), req.target)
                         /\ req.target \in DOMAIN ParseOr(get(DB, "VOTED_USERS"), EmptyObject)
                         -> kicked \cup {req.target}
                    [] kind \in {"NowPlaying", "SessionStarted"} -> {}
                    [] OTHER -> kicked
     /\ seeded' = IF kind = "SessionStarted" THEN get(r.db, "QUEUE").json ELSE seeded
     /\ played' = CASE kind = "SessionStarted" -> <<>>
                    [] kind = "NowPlaying" /\ req.op = "vote-next" ->
                         Append(played, get(r.db, "CURRENT_SONG").json)
                    [] OTHER -> played
     /\ rejoined' = CASE kind = "Joined" /\ Truthy(get(DB, "CURRENT_SONG"))
                           /\ req.user \in snapshot -> rejoined \cup {req.user}
                      [] kind = "Left" -> rejoined \ {req.user}
                      [] kind = "Kicked" -> rejoined \ {req.target}
                      [] kind \in {"NowPlaying", "SessionStarted"} -> {}
                      [] OTHER -> rejoined
     /\ UNCHANGED inFlight

\* getPlaylistItems is called only for a url that holds a playlist id
SessionStartRequest ==
  \E caller \in Users, option \in {<<>>} \cup {<<url>> : url \in PlaylistUrls} :
    \E items \in (IF option # <<>> /\ getPlaylistId(option[1]) # NoId
                  THEN PlaylistResults ELSE {<<>>}) :
      Handle([op |-> "session-start", user |-> caller, option |-> option],
             SESSION_START_COMMAND(DB, caller, option, items))

SessionEndRequest ==
  \E caller \in Users :
    Handle([op |-> "session-end", user |-> caller], SESSION_END_COMMAND(DB, caller))

\* getVideoTitle is called only for a url that holds a video id
VoteStartRequest ==
  \E caller \in Users, url \in VideoUrls :
    \E title \in (IF getVideoId(url) = NoId THEN {"Unknown Song"}
                  ELSE VideoTitles(getVideoId(url))) :
      Handle([op |-> "vote-start", user |-> caller, url |-> url],
             VOTE_START_COMMAND(DB, caller, url, title))

VoteNextRequest ==
  \E caller \in Users :
    Handle([op |-> "vote-next", user |-> caller], VOTE_NEXT_COMMAND(DB, caller))

VoteEndRequest ==
  \E caller \in Users :
    Handle([op |-> "vote-end", user |-> caller], VOTE_END_COMMAND(DB, caller))

EnterRequest ==
  \E caller \in Users :
    Handle([op |-> "enter", user |-> caller], ENTER_COMMAND(DB, caller))

ExitRequest ==
  \E caller \in Users :
    Handle([op |-> "exit", user |-> caller], EXIT_COMMAND(DB, caller))

KickRequest ==
  \E caller \in Users, target \in Users :
    Handle([op |-> "kick", user |-> caller, target |-> target],
           KICK_COMMAND(DB, caller, target))

ParticipantsRequest ==
  \E caller \in Users :
    Handle([op |-> "participants", user |-> caller], PARTICIPANTS_COMMAND(DB, caller))

VoteButtonRequest ==
  \E caller \in Users, customId \in CustomIds :
    Handle([op |-> "vote", user |-> caller, customId |-> customId],
           VoteButton(DB, caller, customId))

Next ==
  \/ SessionStartRequest
  \/ SessionEndRequest
  \/ VoteStartRequest
  \/ VoteNextRequest
  \/ VoteEndRequest
  \/ EnterRequest
  \/ ExitRequest
  \/ KickRequest
  \/ ParticipantsRequest
  \/ VoteButtonRequest

Spec == Init /\ [][Next]_vars

(***************************************************************************)
(* The entities of the data model, read from the store as the handlers     *)
(* read them.                                                              *)
(***************************************************************************)
SessionActive == get(DB, "SESSION_ACTIVE") = Lit("true")
CurrentSongSet == Truthy(get(DB, "CURRENT_SONG"))
Queue == ParseOr(get(DB, "QUEUE"), <<>>)
SessionParticipants == ParseOr(get(DB, "SESSION_PARTICIPANTS"), <<>>)
EligibleVoters == ParseOr(get(DB, "ELIGIBLE_VOTERS"), <<>>)
VotedUsers == ParseOr(get(DB, "VOTED_USERS"), EmptyObject)
History == ParseOr(get(DB, "HISTORY"), <<>>)

Present(k) == get(DB, k) # Null

\* the step accepted a request of the command op
Accepted(op) ==
  /\ last'.req.op = op
  /\ \/ accepted' = accepted + 1
     \/ op = "session-start" /\ ~SessionActive /\ SessionActive'

\* the button of the current track worth points
CurrentButton(points) ==
  [match |-> TRUE, points |-> points, vid |-> get(DB, "CURRENT_SONG").json.id]

(***************************************************************************)
(* C1: after every request, every user with an entry in VOTED_USERS is in  *)
(* ELIGIBLE_VOTERS, and every user in ELIGIBLE_VOTERS was in               *)
(* SESSION_PARTICIPANTS when the current track was started.                *)
(***************************************************************************)
C1_VotedEligibleSnapshot ==
  /\ DOMAIN VotedUsers \subseteq Range(EligibleVoters)
  /\ Range(EligibleVoters) \subseteq snapshot

\* a participant left while the other one's vote on the current track stands
C1_Witness ==
  /\ last.req.op \in {"exit", "kick"}
  /\ CurrentSongSet
  /\ DOMAIN VotedUsers # {}
  /\ Range(EligibleVoters) # snapshot

C3_InactiveMeansEmpty ==
  ~SessionActive =>
    /\ Queue = <<>>
    /\ ~CurrentSongSet
    /\ SessionParticipants = <<>>
    /\ EligibleVoters = <<>>
    /\ DOMAIN VotedUsers = {}
    /\ History = <<>>

(***************************************************************************)
(* C3 amended: where SESSION_ACTIVE is 'false', CurrentSong is unset;      *)
(* where SESSION_ACTIVE is absent, Queue, Participants, EligibleVoters and *)
(* VotedUsers are empty or absent.  An accepted session-end writes         *)
(* SESSION_ACTIVE only, so the other keys keep what the session left; it   *)
(* is the next accepted session-start that leaves CurrentSong,             *)
(* EligibleVoters, VotedUsers and History absent and Participants empty.   *)
(***************************************************************************)
C3_ResetBySessionStart ==
  [][/\ get(DB, "SESSION_ACTIVE")' = Lit("false") => ~CurrentSongSet'
     /\ get(DB, "SESSION_ACTIVE")' = Null =>
          /\ Queue' = <<>>
          /\ SessionParticipants' = <<>>
          /\ EligibleVoters' = <<>>
          /\ DOMAIN VotedUsers' = {}
     /\ Accepted("session-end") =>
          /\ get(DB, "SESSION_ACTIVE")' = Lit("false")
          /\ \A k \in Keys \ {"SESSION_ACTIVE"} : get(DB, k)' = get(DB, k)
     /\ Accepted("session-start") =>
          /\ \A k \in {"CURRENT_SONG", "ELIGIBLE_VOTERS", "VOTED_USERS", "HISTORY"} :
               ~Present(k)'
          /\ get(DB, "SESSION_PARTICIPANTS")' = Json(<<>>)]_vars

\* a session with participants and a closed vote round has been ended
C3_Witness ==
  /\ last.req.op = "session-end"
  /\ get(DB, "SESSION_ACTIVE") = Lit("false")
  /\ SessionParticipants # <<>>
  /\ History # <<>>

(***************************************************************************)
(* C4: in every state and for every request, a request that is rejected    *)
(* leaves all seven keys of the store with the values they had.            *)
(***************************************************************************)
RejectedUnchanged(r) == r.resp.kind \in Rejections => r.db = DB

C4_RejectionLeavesStore ==
  /\ \A caller \in Users, option \in {<<>>} \cup {<<url>> : url \in PlaylistUrls},
        items \in PlaylistResults :
       RejectedUnchanged(SESSION_START_COMMAND(DB, caller, option, items))
  /\ \A caller \in Users, url \in VideoUrls, title \in {"Song X", "Song Y", "Unknown Song"} :
       RejectedUnchanged(VOTE_START_COMMAND(DB, caller, url, title))
  /\ \A caller \in Users :
       /\ RejectedUnchanged(SESSION_END_COMMAND(DB, caller))
       /\ RejectedUnchanged(VOTE_NEXT_COMMAND(DB, caller))
       /\ RejectedUnchanged(VOTE_END_COMMAND(DB, caller))
       /\ RejectedUnchanged(ENTER_COMMAND(DB, caller))
       /\ RejectedUnchanged(EXIT_COMMAND(DB, caller))
       /\ RejectedUnchanged(PARTICIPANTS_COMMAND(DB, caller))
  /\ \A caller \in Users, target \in Users :
       RejectedUnchanged(KICK_COMMAND(DB, caller, target))
  /\ \A caller \in Users, customId \in CustomIds :
       RejectedUnchanged(VoteButton(DB, caller, customId))

\* a vote is open with a vote recorded, and the store rejects a second
\* enter, a session-start, a session-end, a vote-next and a late joiner's vote
C4_Witness ==
  /\ CurrentSongSet
  /\ DOMAIN VotedUsers # {}
  /\ \E u \in Users : ENTER_COMMAND(DB, u).resp.kind = "AlreadyJoined"
  /\ SESSION_START_COMMAND(DB, MANAGER_USER_ID, <<>>, <<>>).resp.kind = "AlreadyActive"
  /\ SESSION_END_COMMAND(DB, MANAGER_USER_ID).resp.kind = "VoteInProgress"
  /\ VOTE_NEXT_COMMAND(DB, MANAGER_USER_ID).resp.kind = "VoteInProgress"
  /\ \E u \in Users, p \in {1, 2} :
       VoteButton(DB, u, CurrentButton(p)).resp.kind = "NotEligible"

(***************************************************************************)
(* C5: vote-start is rejected with NotActive in every state where          *)
(* SESSION_ACTIVE is 'false' or was never written: a vote-start is         *)
(* accepted, and sets CurrentSong, only when SESSION_ACTIVE is 'true'.     *)
(***************************************************************************)
C5_VoteStartNeedsSession ==
  [][Accepted("vote-start") => SessionActive /\ CurrentSongSet']_vars

(***************************************************************************)
(* C6: session-end is rejected with NotActive whenever SESSION_ACTIVE is   *)
(* 'false' or was never written and with VoteInProgress whenever           *)
(* CurrentSong is set: a session-end is accepted, and writes 'false', only *)
(* from an active session with no current song.                            *)
(***************************************************************************)
C6_SessionEndNeedsSession ==
  [][Accepted("session-end") =>
       /\ SessionActive /\ ~CurrentSongSet
       /\ get(DB, "SESSION_ACTIVE")' = Lit("false")]_vars

(***************************************************************************)
(* C7: once CurrentSong is set to a track it keeps that value until a      *)
(* vote-end is accepted, and that vote-end merges the track into History:  *)
(* no other request clears or replaces it.                                 *)
(***************************************************************************)
C7_CurrentSongUntilVoteEnd ==
  [][(CurrentSongSet /\ get(DB, "CURRENT_SONG")' # get(DB, "CURRENT_SONG")) =>
       /\ Accepted("vote-end")
       /\ hasEntry(History', get(DB, "CURRENT_SONG").json.id)]_vars

(***************************************************************************)
(* C8: an accepted vote by u with score s deletes u's entry when           *)
(* VotedUsers[u] = s and sets VotedUsers[u] = s otherwise, and leaves the  *)
(* entries of the other users as they were.  So a vote (u, s) that was     *)
(* cast and is followed by a second (u, s) ends with u not in VotedUsers,  *)
(* and (u, 1) followed by (u, 2) ends with VotedUsers[u] = 2.              *)
(***************************************************************************)
C8_ToggleVote ==
  [][Accepted("vote") =>
       LET u == last'.req.user
           s == last'.req.customId.points
       IN /\ IF u \in DOMAIN VotedUsers /\ VotedUsers[u] = s
             THEN u \notin DOMAIN VotedUsers'
             ELSE u \in DOMAIN VotedUsers' /\ VotedUsers'[u] = s
          /\ \A v \in Users \ {u} :
               /\ v \in DOMAIN VotedUsers' <=> v \in DOMAIN VotedUsers
               /\ v \in DOMAIN VotedUsers => VotedUsers'[v] = VotedUsers[v]
          /\ (last.req.op = "vote" /\ last.req.user = u) =>
               /\ (last.resp.kind = "VoteCast" /\ last.req.customId.points = s) =>
                    u \notin DOMAIN VotedUsers'
               /\ (last.req.customId.points = 1 /\ s = 2) =>
                    u \in DOMAIN VotedUsers' /\ VotedUsers'[u] = 2]_vars

\* a user has retracted a vote while the vote of the other user stands
C8_Witness ==
  /\ last.req.op = "vote"
  /\ last.resp.kind = "VoteRetracted"
  /\ last.req.user \notin DOMAIN VotedUsers
  /\ \E v \in Users \ {last.req.user} : v \in DOMAIN VotedUsers

(***************************************************************************)
(* C9: while a track is current, every vote on it by a participant who     *)
(* entered after it was started is rejected with NotEligible and leaves    *)
(* the store unchanged; when vote-start or vote-next starts a track, every *)
(* participant, the late joiners of the track before included, is in       *)
(* EligibleVoters and a vote by them on the new track is accepted.         *)
(***************************************************************************)
LateJoinersRejected ==
  CurrentSongSet =>
    \A u \in Range(SessionParticipants) \ snapshot, p \in {1, 2} :
      /\ VoteButton(DB, u, CurrentButton(p)).resp.kind = "NotEligible"
      /\ VoteButton(DB, u, CurrentButton(p)).db = DB

C9_EligibilitySnapshot ==
  /\ [] LateJoinersRejected
  /\ [][(Accepted("vote-start") \/ Accepted("vote-next")) =>
          \A u \in Range(SessionParticipants), p \in {1, 2} :
            /\ u \in Range(EligibleVoters')
            /\ VoteButton(DB', u, CurrentButton(p)').resp.kind = "VoteCast"]_vars

\* a user who entered while an earlier track was current has a vote on the
\* current one
C9_Witness ==
  /\ CurrentSongSet
  /\ last.req.op = "vote"
  /\ last.req.user \in late
  /\ last.req.user \in DOMAIN VotedUsers

(***************************************************************************)
(* C10: an accepted vote-end reports totalPoints = sum of the VotedUsers   *)
(* values, voterCount = size of VotedUsers and participantCount = size of  *)
(* EligibleVoters, and adds the three to History[trackId], creating the    *)
(* entry if absent; so History[trackId] holds, for each of the three, the  *)
(* sum over the vote-ends of that track since the session-start.           *)
(***************************************************************************)
entryOf(history, id) == history[CHOOSE i \in 1..Len(history) : history[i].id = id]

HistoryIsTally(history, t) ==
  \A id \in VideoIds :
    IF t[id].rounds = 0 THEN ~hasEntry(history, id)
    ELSE /\ hasEntry(history, id)
         /\ entryOf(history, id).totalPoints = t[id].totalPoints
         /\ entryOf(history, id).voterCount = t[id].voterCount
         /\ entryOf(history, id).participantCount = t[id].participantCount

C10_HistoryAccumulates ==
  /\ [] HistoryIsTally(History, tally)
  /\ [][Accepted("vote-end") =>
          /\ last'.resp.totalPoints = sumOver(DOMAIN VotedUsers, VotedUsers)
          /\ last'.resp.voterCount = Cardinality(DOMAIN VotedUsers)
          /\ last'.resp.participantCount = Len(EligibleVoters)
          /\ Len(History') = IF hasEntry(History, get(DB, "CURRENT_SONG").json.id)
                             THEN Len(History) ELSE Len(History) + 1]_vars

\* a track has been voted on twice in the session, with points given
C10_Witness ==
  /\ last.req.op = "vote-end"
  /\ \E id \in VideoIds :
       /\ tally[id].rounds >= 2
       /\ tally[id].totalPoints > 0
       /\ tally[id].participantCount > 0

(***************************************************************************)
(* C11: an accepted kick of a user who is in EligibleVoters and has a vote *)
(* recorded leaves the user in none of Participants, EligibleVoters and    *)
(* VotedUsers; and the vote-end that closes the track reports the sum and  *)
(* the number of the votes of the other users and the number of the other  *)
(* eligible voters of the track's snapshot, as if the kicked user had not  *)
(* been a participant when the track was started.                          *)
(***************************************************************************)
KickedAreGone ==
  CurrentSongSet =>
    /\ kicked \cap Range(EligibleVoters) = {}
    /\ kicked \cap DOMAIN VotedUsers = {}
    /\ Range(EligibleVoters) \subseteq snapshot \ kicked

KickOfVoter ==
  /\ Accepted("kick")
  /\ includes(EligibleVoters, last'.req.target)
  /\ last'.req.target \in DOMAIN VotedUsers

VoteEndAfterKick == Accepted("vote-end") /\ kicked # {}

C11_KickRemovesVote ==
  /\ [] KickedAreGone
  /\ [][/\ KickOfVoter =>
             /\ ~includes(SessionParticipants', last'.req.target)
             /\ ~includes(EligibleVoters', last'.req.target)
             /\ last'.req.target \notin DOMAIN VotedUsers'
        /\ VoteEndAfterKick =>
             /\ last'.resp.totalPoints = sumOver(DOMAIN VotedUsers \ kicked, VotedUsers)
             /\ last'.resp.voterCount = Cardinality(DOMAIN VotedUsers \ kicked)
             /\ last'.resp.participantCount =
                  Cardinality((snapshot \ kicked) \cap Range(EligibleVoters))]_vars

\* a vote-end has closed a track during which a voter was kicked and another
\* eligible voter stayed
C11_Witness ==
  /\ last.req.op = "vote-end"
  /\ kicked # {}
  /\ last.resp.participantCount >= 1

(***************************************************************************)
(* C12: an accepted exit by u or kick of u leaves u in none of             *)
(* SESSION_PARTICIPANTS, ELIGIBLE_VOTERS and VOTED_USERS, and leaves the   *)
(* membership of every other user in the three records, the order of the   *)
(* other users in the two lists and the votes of the other users as they   *)
(* were, with or without a current track.                                  *)
(***************************************************************************)
\* the user that the accepted exit or kick of the step removes
Removed == IF last'.req.op = "exit" THEN last'.req.user ELSE last'.req.target

\* v and w stand in the same order in the lists before and after
SameOrder(before, after, v, w) ==
  \A i, j \in 1..Len(before) :
    (before[i] = v /\ before[j] = w /\ i < j) =>
      \E k, l \in 1..Len(after) : after[k] = v /\ after[l] = w /\ k < l

C12_RemovalIsExact ==
  [][(Accepted("exit") \/ Accepted("kick")) =>
       /\ ~includes(SessionParticipants', Removed)
       /\ ~includes(EligibleVoters', Removed)
       /\ Removed \notin DOMAIN VotedUsers'
       /\ Len(SessionParticipants') = Len(SessionParticipants) - 1
       /\ \A v \in Users \ {Removed} :
            /\ includes(SessionParticipants', v) <=> includes(SessionParticipants, v)
            /\ includes(EligibleVoters', v) <=> includes(EligibleVoters, v)
            /\ v \in DOMAIN VotedUsers' <=> v \in DOMAIN VotedUsers
            /\ v \in DOMAIN VotedUsers => VotedUsers'[v] = VotedUsers[v]
            /\ \A w \in Users \ {Removed} :
                 /\ SameOrder(SessionParticipants, SessionParticipants', v, w)
                 /\ SameOrder(EligibleVoters, EligibleVoters', v, w)
       /\ \A k \in Keys \ {"SESSION_PARTICIPANTS", "ELIGIBLE_VOTERS", "VOTED_USERS"} :
            get(DB, k)' = get(DB, k)]_vars

\* a voter was kicked during a track and the vote of the other user stands
C12_Witness ==
  /\ last.req.op = "kick"
  /\ last.req.target \in kicked
  /\ CurrentSongSet
  /\ DOMAIN VotedUsers # {}
  /\ ~includes(SessionParticipants, last.req.target)

(***************************************************************************)
(* C14: an accepted vote-next with Queue = [t1, t2, ..., tn] sets          *)
(* CurrentSong to the id and the title of t1 and Queue to [t2, ..., tn];   *)
(* no request but vote-next and session-start changes Queue, so at every   *)
(* moment of a session the tracks vote-next has made current, followed by  *)
(* the tracks still in Queue, are the seeded playlist in its order: each   *)
(* track is made current once, in the order of the playlist, whatever      *)
(* vote-start, vote-end, enter, exit, kick or vote requests come between.  *)
(***************************************************************************)
\* the id and the title of the items of a queue
tracksOf(queue) == [i \in 1..Len(queue) |-> [id |-> queue[i].id, title |-> queue[i].title]]

PlayedThenQueueIsSeeded == tracksOf(played) \o tracksOf(Queue) = tracksOf(seeded)

C14_QueueIsFifo ==
  /\ [] PlayedThenQueueIsSeeded
  /\ [][/\ Accepted("vote-next") =>
             /\ Queue # <<>>
             /\ get(DB, "CURRENT_SONG")'.json.id = Head(Queue).id
             /\ get(DB, "CURRENT_SONG")'.json.title = Head(Queue).title
             /\ Queue' = Tail(Queue)
        /\ Queue' # Queue => Accepted("vote-next") \/ Accepted("session-start")]_vars

\* the second track of the playlist has been made current in a session with a
\* participant in which a track was also voted on twice
C14_Witness ==
  /\ last.req.op = "vote-next"
  /\ Len(played) >= 2
  /\ SessionParticipants # <<>>
  /\ \E id \in VideoIds : tally[id].rounds >= 2

(***************************************************************************)
(* C15: in an active session with no current song and an empty Queue, a    *)
(* vote-next by the manager is answered with QueueEmpty and a vote-next by *)
(* any caller leaves all seven keys as they were, CurrentSong unset; the   *)
(* handler does the same on such a store with the key QUEUE absent.        *)
(***************************************************************************)
C15_EmptyQueueRejected ==
  (SessionActive /\ ~CurrentSongSet /\ Queue = <<>>) =>
    /\ VOTE_NEXT_COMMAND(DB, MANAGER_USER_ID).resp.kind = "QueueEmpty"
    /\ VOTE_NEXT_COMMAND(delete(DB, "QUEUE"), MANAGER_USER_ID).resp.kind = "QueueEmpty"
    /\ \A caller \in Users :
         /\ VOTE_NEXT_COMMAND(DB, caller).resp.kind \in Rejections
         /\ VOTE_NEXT_COMMAND(DB, caller).db = DB
         /\ VOTE_NEXT_COMMAND(delete(DB, "QUEUE"), caller).db = delete(DB, "QUEUE")
         /\ ~Truthy(get(VOTE_NEXT_COMMAND(DB, caller).db, "CURRENT_SONG"))

\* the playlist of the session is used up, the votes of the last round are
\* still in the store, and a vote-next is answered with QueueEmpty
C15_Witness ==
  /\ SessionActive /\ ~CurrentSongSet /\ Queue = <<>>
  /\ Len(played) >= 1
  /\ DOMAIN VotedUsers # {}
  /\ VOTE_NEXT_COMMAND(DB, MANAGER_USER_ID).resp.kind = "QueueEmpty"

(***************************************************************************)
(* C16: a press of a vote button by u for the track trackId is rejected    *)
(* with SessionClosed if no session is active; otherwise with VoteClosed   *)
(* if CurrentSong is unset or its id is not trackId; otherwise with        *)
(* NotAParticipant if u is not in Participants; otherwise with NotEligible *)
(* if u is not in EligibleVoters; otherwise the vote is cast or retracted. *)
(* The press changes VotedUsers only in the last case and a rejected press *)
(* changes no key.                                                         *)
(***************************************************************************)
\* the answer the first guard that applies gives, "Vote" when none applies
VoteAnswer(u, trackId) ==
  IF ~SessionActive THEN "SessionClosed"
  ELSE IF ~CurrentSongSet \/ get(DB, "CURRENT_SONG").json.id # trackId THEN "VoteClosed"
  ELSE IF u \notin Range(SessionParticipants) THEN "NotAParticipant"
  ELSE IF u \notin Range(EligibleVoters) THEN "NotEligible"
  ELSE "Vote"

C16_VoteGuards ==
  \A u \in Users, trackId \in VideoIds, score \in {1, 2} :
    LET r == VoteButton(DB, u, [match |-> TRUE, points |-> score, vid |-> trackId])
    IN IF VoteAnswer(u, trackId) = "Vote"
       THEN /\ r.resp.kind \in {"VoteCast", "VoteRetracted"}
            /\ get(r.db, "VOTED_USERS") # get(DB, "VOTED_USERS")
            /\ \A k \in Keys \ {"VOTED_USERS"} : get(r.db, k) = get(DB, k)
       ELSE /\ r.resp.kind = VoteAnswer(u, trackId)
            /\ r.db = DB

\* a vote has been accepted while a press by the late joiner is answered
\* NotEligible and a press of a button of another track VoteClosed
C16_Witness ==
  /\ last.req.op = "vote"
  /\ CurrentSongSet
  /\ late # {}
  /\ \E u \in Users, trackId \in VideoIds :
       /\ VoteAnswer(u, trackId) = "NotEligible"
       /\ VoteButton(DB, u, CurrentButton(1)).resp.kind = "NotEligible"
  /\ \E u \in Users, trackId \in VideoIds :
       /\ VoteAnswer(u, trackId) = "VoteClosed"
       /\ includes(SessionParticipants, u)

(***************************************************************************)
(* C17: while SESSION_ACTIVE is 'true' a session-start by the manager is   *)
(* answered AlreadyActive and changes nothing.  Otherwise, whatever the    *)
(* store holds, a session-start that succeeds leaves SESSION_ACTIVE =      *)
(* 'true', CURRENT_SONG, VOTED_USERS, ELIGIBLE_VOTERS and HISTORY absent,  *)
(* SESSION_PARTICIPANTS = [] and QUEUE = the items the playlist resolved   *)
(* to, [] when no playlist was given.                                      *)
(***************************************************************************)
\* the store of a session that has just started with the queue
FreshSession(queue) ==
  [k \in Keys |-> CASE k = "SESSION_ACTIVE" -> Lit("true")
                    [] k = "SESSION_PARTICIPANTS" -> Json(<<>>)
                    [] k = "QUEUE" -> Json(queue)
                    [] OTHER -> Null]

SessionStartResets ==
  \A option \in {<<>>} \cup {<<url>> : url \in PlaylistUrls}, items \in PlaylistResults :
    LET r == SESSION_START_COMMAND(DB, MANAGER_USER_ID, option, items)
    IN /\ SessionActive => r.resp.kind = "AlreadyActive" /\ r.db = DB
       /\ ~SessionActive => r.resp.kind # "AlreadyActive"
       /\ r.resp.kind = "SessionStarted" =>
            /\ r.db = FreshSession(IF option = <<>> THEN <<>> ELSE items)
            /\ r.resp.queueSize = Len(IF option = <<>> THEN <<>> ELSE items)

C17_SessionStartResets ==
  /\ [] SessionStartResets
  /\ [][Accepted("session-start") =>
          /\ ~SessionActive
          /\ DB' = FreshSession(Queue')
          /\ Len(Queue') = last'.resp.queueSize
          /\ last'.req.option = <<>> => Queue' = <<>>]_vars

\* the store holds what an ended session left (history, participants, votes)
\* and a session-start with a playlist succeeds on it
C17_Witness ==
  /\ get(DB, "SESSION_ACTIVE") = Lit("false")
  /\ History # <<>>
  /\ SessionParticipants # <<>>
  /\ DOMAIN VotedUsers # {}
  /\ \E url \in PlaylistUrls :
       SESSION_START_COMMAND(DB, MANAGER_USER_ID, <<url>>, CatalogPlaylist(1)).db
         = FreshSession(CatalogPlaylist(1))

(***************************************************************************)
(* C18: a session-start whose playlist url holds no playlist id is         *)
(* answered InvalidReference, and one whose playlist resolves to no track  *)
(* EmptyOrInaccessible (AlreadyActive if a session is active); both leave  *)
(* all seven keys as they were: SESSION_ACTIVE is not set to 'true' and    *)
(* the History and the Participants of the session before stay.            *)
(***************************************************************************)
C18_BadPlaylistChangesNothing ==
  \A caller \in Users, url \in PlaylistUrls, items \in PlaylistResults :
    LET r == SESSION_START_COMMAND(DB, caller, <<url>>, items)
    IN (getPlaylistId(url) = NoId \/ Len(items) = 0) =>
         /\ r.db = DB
         /\ r.resp.kind \in Rejections
         /\ (isManager(caller) /\ ~SessionActive) =>
              r.resp.kind = IF getPlaylistId(url) = NoId THEN "InvalidReference"
                            ELSE "EmptyOrInaccessible"

\* the store holds the history and the participants of an ended session and
\* a session-start is answered InvalidReference for one url and
\* EmptyOrInaccessible for another
C18_Witness ==
  /\ ~SessionActive
  /\ History # <<>>
  /\ SessionParticipants # <<>>
  /\ \E url \in PlaylistUrls :
       SESSION_START_COMMAND(DB, MANAGER_USER_ID, <<url>>, CatalogPlaylist(1)).resp.kind
         = "InvalidReference"
  /\ \E url \in PlaylistUrls :
       SESSION_START_COMMAND(DB, MANAGER_USER_ID, <<url>>, <<>>).resp.kind
         = "EmptyOrInaccessible"

(***************************************************************************)
(* The summary of session-end on the histories a session can leave: the    *)
(* store is the one of an active session whose tracks have been voted on   *)
(* and whose participants have left, and the manager or a member ends the  *)
(* session.                                                                *)
(***************************************************************************)
\* the ids and titles of the tracks, in the order of their first vote-end
TrackIds == <<VidX, VidY, "ZZZZZZZZZZZ", "VVVVVVVVVVV", "WWWWWWWWWWW">>
TrackTitles == <<"Song X", "Song Y", "Song Z", "Song V", "Song W">>

\* what one vote-end can leave of a track: voterCount <= participantCount and
\* every vote worth 1 or 2
RoundTotals ==
  {t \in [totalPoints : 0..(2 * MaxSeats), voterCount : 0..MaxSeats,
          participantCount : 0..MaxSeats] :
     /\ t.voterCount <= t.participantCount
     /\ t.voterCount <= t.totalPoints
     /\ t.totalPoints <= 2 * t.voterCount}

\* the History of tracks with the totals f[1], f[2], ...
HistoryOf(f) ==
  [i \in DOMAIN f |-> [id |-> TrackIds[i], title |-> TrackTitles[i],
                       totalPoints |-> f[i].totalPoints,
                       voterCount |-> f[i].voterCount,
                       participantCount |-> f[i].participantCount]]

\* the store of a session after the vote-ends that wrote history
AfterRounds(history) ==
  IF history = <<>> THEN FreshSession(<<>>)
  ELSE [FreshSession(<<>>) EXCEPT !["HISTORY"] = Json(history),
                                  !["CURRENT_SONG"] = Lit(""),
                                  !["VOTED_USERS"] = Json(EmptyObject),
                                  !["ELIGIBLE_VOTERS"] = Json(<<>>)]

InitSummary ==
  /\ \E n \in 0..MaxTracks : \E f \in [1..n -> RoundTotals] : DB = AfterRounds(HistoryOf(f))
  /\ last = [req |-> [op |-> "none"], resp |-> Reply("none")]
  /\ snapshot = {}
  /\ late = {}
  /\ tally = NoRounds
  /\ accepted = 0
  /\ kicked = {}
  /\ seeded = <<>>
  /\ played = <<>>
  /\ rejoined = {}
  /\ NoRace

SpecSummary == InitSummary /\ [][SessionEndRequest]_vars

(***************************************************************************)
(* C19: an accepted session-end returns one line per entry of History, the *)
(* lines in the order of descending average totalPoints / participantCount *)
(* (0 when participantCount = 0) and entries of equal average in the order *)
(* they have in History; a History with the averages 2.0, 0.0, 1.5 is      *)
(* returned as first, third, second entry.                                 *)
(***************************************************************************)
\* the average of entry a is not lower than that of entry b / is the same
NotLower(a, b) ==
  (IF a.participantCount > 0 THEN a.totalPoints ELSE 0)
      * (IF b.participantCount > 0 THEN b.participantCount ELSE 1)
    >= (IF b.participantCount > 0 THEN b.totalPoints ELSE 0)
         * (IF a.participantCount > 0 THEN a.participantCount ELSE 1)

SameAverage(a, b) == NotLower(a, b) /\ NotLower(b, a)

\* the lines are the entries of history, line i being entry order[i]
LinesInOrder(lines, history, order) ==
  /\ \A i \in 1..Len(history) : \E j \in 1..Len(history) : order[j] = i
  /\ \A i \in 1..Len(history) :
       /\ lines[i].title = history[order[i]].title
       /\ lines[i].voterCount = history[order[i]].voterCount
  /\ \A i, j \in 1..Len(history) :
       i < j => /\ NotLower(history[order[i]], history[order[j]])
                /\ SameAverage(history[order[i]], history[order[j]]) => order[i] < order[j]

\* the averages of the entries are 2.0, 0.0 and 1.5
ExampleAverages(history) ==
  /\ Len(history) = 3
  /\ history[1].participantCount > 0
  /\ history[1].totalPoints = 2 * history[1].participantCount
  /\ history[2].totalPoints = 0
  /\ history[3].participantCount > 0
  /\ 2 * history[3].totalPoints = 3 * history[3].participantCount

C19_SummarySorted ==
  last.req.op = "session-end" =>
    /\ Len(last.resp.summary) = Len(History)
    /\ \E order \in [1..Len(History) -> 1..Len(History)] :
         LinesInOrder(last.resp.summary, History, order)
    /\ ExampleAverages(History) =>
         LinesInOrder(last.resp.summary, History, <<1, 3, 2>>)

\* a session whose History has the averages 2.0, 0.0, 1.5 has been ended
C19_Witness ==
  /\ last.req.op = "session-end"
  /\ ExampleAverages(History)
  /\ last.resp.summary[2].title = History[3].title

(***************************************************************************)
(* C20: an enter by u is answered NotActive when no session is active and  *)
(* AlreadyJoined when u is in Participants, and then changes nothing;      *)
(* otherwise it succeeds, writes Participants with u appended behind the   *)
(* members it had, in their order, and reports the new size.  With or      *)
(* without a current track it changes no key but SESSION_PARTICIPANTS.     *)
(***************************************************************************)
EnterAnswers ==
  \A u \in Users :
    LET r == ENTER_COMMAND(DB, u)
    IN /\ ~SessionActive => r.resp.kind = "NotActive" /\ r.db = DB
       /\ (SessionActive /\ u \in Range(SessionParticipants)) =>
            r.resp.kind = "AlreadyJoined" /\ r.db = DB
       /\ (SessionActive /\ u \notin Range(SessionParticipants)) =>
            r.resp.kind = "Joined"

C20_EnterAppends ==
  /\ [] EnterAnswers
  /\ [][Accepted("enter") =>
          /\ SessionActive
          /\ last'.req.user \notin Range(SessionParticipants)
          /\ Len(SessionParticipants') = Len(SessionParticipants) + 1
          /\ SessionParticipants'[Len(SessionParticipants')] = last'.req.user
          /\ \A i \in 1..Len(SessionParticipants) :
               SessionParticipants'[i] = SessionParticipants[i]
          /\ last'.resp.size = Len(SessionParticipants')
          /\ \A k \in Keys \ {"SESSION_PARTICIPANTS"} : get(DB, k)' = get(DB, k)]_vars

\* a second user has entered during a track on which a vote is recorded
C20_Witness ==
  /\ last.req.op = "enter"
  /\ last.resp.size = 2
  /\ CurrentSongSet
  /\ DOMAIN VotedUsers # {}
  /\ SessionParticipants[2] = last.req.user

(***************************************************************************)
(* The handlers at the granularity of their calls to env.DB.  Every        *)
(* `await env.DB.get / put / delete` is one step; a frame is a request     *)
(* that is being handled:                                                  *)
(*   req   the request                                                     *)
(*   pc    the call to env.DB the handler is about to make, or Done        *)
(*   mem   the local variables the rest of the handler uses                *)
(*   resp  the response, once pc is Done                                   *)
(* A step makes the call of pc and runs the handler up to its next call    *)
(* to env.DB or to its return statement.                                   *)
(***************************************************************************)
\* the local variable name of the handler holds value
bind(mem, name, value) ==
  [n \in (DOMAIN mem) \cup {name} |-> IF n = name THEN value ELSE mem[n]]

\* the handler goes on to its next call / returns its response
Await(f, db, pc, mem) == [f |-> [f EXCEPT !.pc = pc, !.mem = mem], db |-> db]
Respond(f, db, resp) == [f |-> [f EXCEPT !.pc = Done, !.resp = resp], db |-> db]

\* the request as it reaches the command switch or the button handler: ext is
\* what the YouTube API returns to it (the playlist items of session-start,
\* the title of vote-start)
Start(req, ext) ==
  LET f == [req |-> req, pc |-> Done, mem |-> bind(NoMem, "ext", ext),
            resp |-> Reply("none")]
  IN IF Forbidden(req.op, req.user) THEN [f EXCEPT !.resp = Reply("Forbidden")]
     ELSE IF req.op = "vote" /\ ~req.customId.match
       THEN [f EXCEPT !.resp = Reply("Unknown")]
     ELSE IF req.op = "vote-end" THEN [f EXCEPT !.pc = Call("get", "CURRENT_SONG")]
     ELSE [f EXCEPT !.pc = Call("get", "SESSION_ACTIVE")]

SessionStartStep(f, db) ==
  LET option == f.req.option
      items == f.mem.ext
  IN CASE f.pc = Call("get", "SESSION_ACTIVE") ->
            IF get(db, "SESSION_ACTIVE") = Lit("true")
              THEN Respond(f, db, Reply("AlreadyActive"))
            ELSE IF option # <<>> /\ getPlaylistId(option[1]) = NoId
              THEN Respond(f, db, Reply("InvalidReference"))
            ELSE IF option # <<>> /\ Len(items) = 0
              THEN Respond(f, db, Reply("EmptyOrInaccessible"))
            ELSE Await(f, db, Call("put", "SESSION_ACTIVE"),
                       bind(f.mem, "initialQueue", IF option # <<>> THEN items ELSE <<>>))
       [] f.pc = Call("put", "SESSION_ACTIVE") ->
            Await(f, put(db, "SESSION_ACTIVE", Lit("true")),
                  Call("delete", "CURRENT_SONG"), f.mem)
       [] f.pc = Call("delete", "CURRENT_SONG") ->
            Await(f, delete(db, "CURRENT_SONG"), Call("delete", "VOTED_USERS"), f.mem)
       [] f.pc = Call("delete", "VOTED_USERS") ->
            Await(f, delete(db, "VOTED_USERS"), Call("delete", "ELIGIBLE_VOTERS"), f.mem)
       [] f.pc = Call("delete", "ELIGIBLE_VOTERS") ->
            Await(f, delete(db, "ELIGIBLE_VOTERS"), Call("delete", "HISTORY"), f.mem)
       [] f.pc = Call("delete", "HISTORY") ->
            Await(f, delete(db, "HISTORY"), Call("put", "SESSION_PARTICIPANTS"), f.mem)
       [] f.pc = Call("put", "SESSION_PARTICIPANTS") ->
            Await(f, put(db, "SESSION_PARTICIPANTS", Json(<<>>)),
                  Call("put", "QUEUE"), f.mem)
       [] f.pc = Call("put", "QUEUE") ->
            Respond(f, put(db, "QUEUE", Json(f.mem.initialQueue)),
                    [kind |-> "SessionStarted", queueSize |-> Len(f.mem.initialQueue)])

\* the snapshot of the participants and the three writes that vote-start and
\* vote-next share; mem holds title, id and remaining
SaveCurrentSongStep(f, db) ==
  CASE f.pc = Call("get", "SESSION_PARTICIPANTS") ->
         Await(f, db, Call("put", "CURRENT_SONG"),
               bind(f.mem, "participants",
                    ParseOr(get(db, "SESSION_PARTICIPANTS"), <<>>)))
    [] f.pc = Call("put", "CURRENT_SONG") ->
         Await(f, put(db, "CURRENT_SONG", Json(SongData(f.mem.title, f.mem.id))),
               Call("put", "VOTED_USERS"), f.mem)
    [] f.pc = Call("put", "VOTED_USERS") ->
         Await(f, put(db, "VOTED_USERS", Json(EmptyObject)),
               Call("put", "ELIGIBLE_VOTERS"), f.mem)
    [] f.pc = Call("put", "ELIGIBLE_VOTERS") ->
         Respond(f, put(db, "ELIGIBLE_VOTERS", Json(f.mem.participants)),
                 NowPlaying(f.mem.title, f.mem.id, f.mem.remaining))

VoteStartStep(f, db) ==
  CASE f.pc = Call("get", "SESSION_ACTIVE") ->
         IF get(db, "SESSION_ACTIVE") = Lit("false")
         THEN Respond(f, db, Reply("NotActive"))
         ELSE Await(f, db, Call("get", "CURRENT_SONG"), f.mem)
    [] f.pc = Call("get", "CURRENT_SONG") ->
         IF Truthy(get(db, "CURRENT_SONG")) THEN Respond(f, db, Reply("VoteInProgress"))
         ELSE IF getVideoId(f.req.url) = NoId
           THEN Respond(f, db, Reply("UnresolvableUrl"))
         ELSE Await(f, db, Call("get", "SESSION_PARTICIPANTS"),
                    bind(bind(bind(f.mem, "title", f.mem.ext),
                              "id", getVideoId(f.req.url)), "remaining", 0))
    [] OTHER -> SaveCurrentSongStep(f, db)

VoteNextStep(f, db) ==
  CASE f.pc = Call("get", "SESSION_ACTIVE") ->
         IF get(db, "SESSION_ACTIVE") # Lit("true")
         THEN Respond(f, db, Reply("NotActive"))
         ELSE Await(f, db, Call("get", "CURRENT_SONG"), f.mem)
    [] f.pc = Call("get", "CURRENT_SONG") ->
         IF Truthy(get(db, "CURRENT_SONG")) THEN Respond(f, db, Reply("VoteInProgress"))
         ELSE Await(f, db, Call("get", "QUEUE"), f.mem)
    [] f.pc = Call("get", "QUEUE") ->
         LET queue == ParseOr(get(db, "QUEUE"), <<>>) IN
         IF Len(queue) = 0 THEN Respond(f, db, Reply("QueueEmpty"))
         ELSE Await(f, db, Call("put", "QUEUE"),
                    bind(bind(bind(bind(f.mem, "title", Head(queue).title),
                                   "id", Head(queue).id),
                              "remaining", Len(Tail(queue))), "queue", Tail(queue)))
    [] f.pc = Call("put", "QUEUE") ->
         Await(f, put(db, "QUEUE", Json(f.mem.queue)),
               Call("get", "SESSION_PARTICIPANTS"), f.mem)
    [] OTHER -> SaveCurrentSongStep(f, db)

VoteEndStep(f, db) ==
  CASE f.pc = Call("get", "CURRENT_SONG") ->
         IF ~Truthy(get(db, "CURRENT_SONG")) THEN Respond(f, db, Reply("NoCurrentSong"))
         ELSE Await(f, db, Call("get", "VOTED_USERS"),
                    bind(f.mem, "songData", get(db, "CURRENT_SONG").json))
    [] f.pc = Call("get", "VOTED_USERS") ->
         Await(f, db, Call("get", "ELIGIBLE_VOTERS"),
               bind(f.mem, "votedUsers", ParseOr(get(db, "VOTED_USERS"), EmptyObject)))
    [] f.pc = Call("get", "ELIGIBLE_VOTERS") ->
         Await(f, db, Call("get", "HISTORY"),
               bind(f.mem, "eligibleVoters", ParseOr(get(db, "ELIGIBLE_VOTERS"), <<>>)))
    [] f.pc = Call("get", "HISTORY") ->
         Await(f, db, Call("put", "HISTORY"),
               bind(f.mem, "history",
                    mergeHistory(ParseOr(get(db, "HISTORY"), <<>>), f.mem.songData,
                                 sumValues(f.mem.votedUsers),
                                 Cardinality(DOMAIN f.mem.votedUsers),
                                 Len(f.mem.eligibleVoters))))
    [] f.pc = Call("put", "HISTORY") ->
         Await(f, put(db, "HISTORY", Json(f.mem.history)),
               Call("put", "CURRENT_SONG"), f.mem)
    [] f.pc = Call("put", "CURRENT_SONG") ->
         LET totalPoints == sumValues(f.mem.votedUsers)
             voterCount == Cardinality(DOMAIN f.mem.votedUsers)
             participantCount == Len(f.mem.eligibleVoters)
         IN Respond(f, put(db, "CURRENT_SONG", Lit("")),
                    [kind |-> "VoteResult", title |-> f.mem.songData.title,
                     totalPoints |-> totalPoints, voterCount |-> voterCount,
                     participantCount |-> participantCount,
                     average |-> toFixed2(totalPoints, participantCount),
                     high |-> highApproval(totalPoints, participantCount)])

SessionEndStep(f, db) ==
  CASE f.pc = Call("get", "SESSION_ACTIVE") ->
         IF get(db, "SESSION_ACTIVE") = Lit("false")
         THEN Respond(f, db, Reply("NotActive"))
         ELSE Await(f, db, Call("get", "CURRENT_SONG"), f.mem)
    [] f.pc = Call("get", "CURRENT_SONG") ->
         IF Truthy(get(db, "CURRENT_SONG")) THEN Respond(f, db, Reply("VoteInProgress"))
         ELSE Await(f, db, Call("put", "SESSION_ACTIVE"), f.mem)
    [] f.pc = Call("put", "SESSION_ACTIVE") ->
         Await(f, put(db, "SESSION_ACTIVE", Lit("false")), Call("get", "HISTORY"), f.mem)
    [] f.pc = Call("get", "HISTORY") ->
         LET sorted == sortedSongs(ParseOr(get(db, "HISTORY"), <<>>))
         IN Respond(f, db, [kind |-> "SessionEnded",
                            summary |-> [i \in 1..Len(sorted) |-> summaryLine(sorted[i])]])

\* EnterStep that appends the user to the participants the store holds at the
\* time of the put
EnterStep_AppendsToStored(f, db) ==
  CASE f.pc = Call("get", "SESSION_ACTIVE") ->
         IF get(db, "SESSION_ACTIVE") # Lit("true")
         THEN Respond(f, db, Reply("NotActive"))
         ELSE Await(f, db, Call("get", "SESSION_PARTICIPANTS"), f.mem)
    [] f.pc = Call("get", "SESSION_PARTICIPANTS") ->
         LET participants == ParseOr(get(db, "SESSION_PARTICIPANTS"), <<>>) IN
         IF includes(participants, f.req.user) THEN Respond(f, db, Reply("AlreadyJoined"))
         ELSE Await(f, db, Call("put", "SESSION_PARTICIPANTS"),
                    bind(f.mem, "participants", Append(participants, f.req.user)))
    [] f.pc = Call("put", "SESSION_PARTICIPANTS") ->
         LET stored == ParseOr(get(db, "SESSION_PARTICIPANTS"), <<>>) IN
         Respond(f, put(db, "SESSION_PARTICIPANTS", Json(Append(stored, f.req.user))),
                 [kind |-> "Joined", size |-> Len(stored) + 1])

EnterStep(f, db) ==
  CASE f.pc = Call("get", "SESSION_ACTIVE") ->
         IF get(db, "SESSION_ACTIVE") # Lit("true")
         THEN Respond(f, db, Reply("NotActive"))
         ELSE Await(f, db, Call("get", "SESSION_PARTICIPANTS"), f.mem)
    [] f.pc = Call("get", "SESSION_PARTICIPANTS") ->
         LET participants == ParseOr(get(db, "SESSION_PARTICIPANTS"), <<>>) IN
         IF includes(participants, f.req.user) THEN Respond(f, db, Reply("AlreadyJoined"))
         ELSE Await(f, db, Call("put", "SESSION_PARTICIPANTS"),
                    bind(f.mem, "participants", Append(participants, f.req.user)))
    [] f.pc = Call("put", "SESSION_PARTICIPANTS") ->
         Respond(f, put(db, "SESSION_PARTICIPANTS", Json(f.mem.participants)),
                 [kind |-> "Joined", size |-> Len(f.mem.participants)])

\* exit and kick: userId is the user to remove, notIn the response when the
\* user is not a participant, removed the response of the success
RemoveUserStep(f, db, userId, notIn, removed) ==
  CASE f.pc = Call("get", "SESSION_ACTIVE") ->
         IF get(db, "SESSION_ACTIVE") # Lit("true")
         THEN Respond(f, db, Reply("NotActive"))
         ELSE Await(f, db, Call("get", "SESSION_PARTICIPANTS"), f.mem)
    [] f.pc = Call("get", "SESSION_PARTICIPANTS") ->
         LET participants == ParseOr(get(db, "SESSION_PARTICIPANTS"), <<>>) IN
         IF ~includes(participants, userId) THEN Respond(f, db, Reply(notIn))
         ELSE Await(f, db, Call("put", "SESSION_PARTICIPANTS"),
                    bind(f.mem, "participants", filterOut(participants, userId)))
    [] f.pc = Call("put", "SESSION_PARTICIPANTS") ->
         Await(f, put(db, "SESSION_PARTICIPANTS", Json(f.mem.participants)),
               Call("get", "ELIGIBLE_VOTERS"), f.mem)
    [] f.pc = Call("get", "ELIGIBLE_VOTERS") ->
         LET eligibleVotersStr == get(db, "ELIGIBLE_VOTERS") IN
         IF Truthy(eligibleVotersStr)
         THEN Await(f, db, Call("put", "ELIGIBLE_VOTERS"),
                    bind(f.mem, "eligibleVoters", filterOut(eligibleVotersStr.json, userId)))
         ELSE Await(f, db, Call("get", "VOTED_USERS"), f.mem)
    [] f.pc = Call("put", "ELIGIBLE_VOTERS") ->
         Await(f, put(db, "ELIGIBLE_VOTERS", Json(f.mem.eligibleVoters)),
               Call("get", "VOTED_USERS"), f.mem)
    [] f.pc = Call("get", "VOTED_USERS") ->
         LET votedUsersStr == get(db, "VOTED_USERS") IN
         IF Truthy(votedUsersStr) /\ userId \in DOMAIN votedUsersStr.json
         THEN Await(f, db, Call("put", "VOTED_USERS"),
                    bind(f.mem, "votedUsers", deleteProp(votedUsersStr.json, userId)))
         ELSE Respond(f, db, Reply(removed))
    [] f.pc = Call("put", "VOTED_USERS") ->
         Respond(f, put(db, "VOTED_USERS", Json(f.mem.votedUsers)), Reply(removed))

ParticipantsStep(f, db) ==
  CASE f.pc = Call("get", "SESSION_ACTIVE") ->
         IF get(db, "SESSION_ACTIVE") # Lit("true")
         THEN Respond(f, db, Reply("NotActive"))
         ELSE Await(f, db, Call("get", "SESSION_PARTICIPANTS"), f.mem)
    [] f.pc = Call("get", "SESSION_PARTICIPANTS") ->
         LET participants == ParseOr(get(db, "SESSION_PARTICIPANTS"), <<>>) IN
         IF Len(participants) = 0 THEN Respond(f, db, Reply("NoParticipants"))
         ELSE Respond(f, db, [kind |-> "ParticipantList", list |-> participants])

\* VoteButtonStep whose put applies the press to the votes the store holds at
\* the time of the put
VoteButtonStep_PutsOnStored(f, db) ==
  LET userId == f.req.user
      points == f.req.customId.points
      buttonVidId == f.req.customId.vid
  IN CASE f.pc = Call("get", "SESSION_ACTIVE") ->
            IF get(db, "SESSION_ACTIVE") # Lit("true")
            THEN Respond(f, db, Reply("SessionClosed"))
            ELSE Await(f, db, Call("get", "CURRENT_SONG"), f.mem)
       [] f.pc = Call("get", "CURRENT_SONG") ->
            LET currentSongStr == get(db, "CURRENT_SONG") IN
            IF ~Truthy(currentSongStr) \/ currentSongStr.json.id # buttonVidId
            THEN Respond(f, db, Reply("VoteClosed"))
            ELSE Await(f, db, Call("get", "SESSION_PARTICIPANTS"), f.mem)
       [] f.pc = Call("get", "SESSION_PARTICIPANTS") ->
            IF ~includes(ParseOr(get(db, "SESSION_PARTICIPANTS"), <<>>), userId)
            THEN Respond(f, db, Reply("NotAParticipant"))
            ELSE Await(f, db, Call("get", "ELIGIBLE_VOTERS"), f.mem)
       [] f.pc = Call("get", "ELIGIBLE_VOTERS") ->
            IF ~includes(ParseOr(get(db, "ELIGIBLE_VOTERS"), <<>>), userId)
            THEN Respond(f, db, Reply("NotEligible"))
            ELSE Await(f, db, Call("get", "VOTED_USERS"), f.mem)
       [] f.pc = Call("get", "VOTED_USERS") ->
            LET votedUsers == ParseOr(get(db, "VOTED_USERS"), EmptyObject) IN
            Await(f, db, Call("put", "VOTED_USERS"),
                  bind(bind(f.mem, "votedUsers", toggleVote(votedUsers, userId, points)),
                       "retract", userId \in DOMAIN votedUsers /\ votedUsers[userId] = points))
       [] f.pc = Call("put", "VOTED_USERS") ->
            LET stored == ParseOr(get(db, "VOTED_USERS"), EmptyObject) IN
            Respond(f, put(db, "VOTED_USERS", Json(toggleVote(stored, userId, points))),
                    IF f.mem.retract THEN [kind |-> "VoteRetracted", points |-> points]
                                     ELSE [kind |-> "VoteCast", points |-> points])

VoteButtonStep(f, db) ==
  LET userId == f.req.user
      points == f.req.customId.points
      buttonVidId == f.req.customId.vid
  IN CASE f.pc = Call("get", "SESSION_ACTIVE") ->
            IF get(db, "SESSION_ACTIVE") # Lit("true")
            THEN Respond(f, db, Reply("SessionClosed"))
            ELSE Await(f, db, Call("get", "CURRENT_SONG"), f.mem)
       [] f.pc = Call("get", "CURRENT_SONG") ->
            LET currentSongStr == get(db, "CURRENT_SONG") IN
            IF ~Truthy(currentSongStr) \/ currentSongStr.json.id # buttonVidId
            THEN Respond(f, db, Reply("VoteClosed"))
            ELSE Await(f, db, Call("get", "SESSION_PARTICIPANTS"), f.mem)
       [] f.pc = Call("get", "SESSION_PARTICIPANTS") ->
            IF ~includes(ParseOr(get(db, "SESSION_PARTICIPANTS"), <<>>), userId)
            THEN Respond(f, db, Reply("NotAParticipant"))
            ELSE Await(f, db, Call("get", "ELIGIBLE_VOTERS"), f.mem)
       [] f.pc = Call("get", "ELIGIBLE_VOTERS") ->
            IF ~includes(ParseOr(get(db, "ELIGIBLE_VOTERS"), <<>>), userId)
            THEN Respond(f, db, Reply("NotEligible"))
            ELSE Await(f, db, Call("get", "VOTED_USERS"), f.mem)
       [] f.pc = Call("get", "VOTED_USERS") ->
            LET votedUsers == ParseOr(get(db, "VOTED_USERS"), EmptyObject) IN
            Await(f, db, Call("put", "VOTED_USERS"),
                  bind(bind(f.mem, "votedUsers", toggleVote(votedUsers, userId, points)),
                       "retract", userId \in DOMAIN votedUsers /\ votedUsers[userId] = points))
       [] f.pc = Call("put", "VOTED_USERS") ->
            Respond(f, put(db, "VOTED_USERS", Json(f.mem.votedUsers)),
                    IF f.mem.retract THEN [kind |-> "VoteRetracted", points |-> points]
                                     ELSE [kind |-> "VoteCast", points |-> points])

\* one step of the handler of the request of f
Step(f, db) ==
  CASE f.req.op = "session-start" -> SessionStartStep(f, db)
    [] f.req.op = "session-end" -> SessionEndStep(f, db)
    [] f.req.op = "vote-start" -> VoteStartStep(f, db)
    [] f.req.op = "vote-next" -> VoteNextStep(f, db)
    [] f.req.op = "vote-end" -> VoteEndStep(f, db)
    [] f.req.op = "enter" -> EnterStep(f, db)
    [] f.req.op = "exit" -> RemoveUserStep(f, db, f.req.user, "NotJoined", "Left")
    [] f.req.op = "kick" -> RemoveUserStep(f, db, f.req.target, "TargetNotJoined", "Kicked")
    [] f.req.op = "participants" -> ParticipantsStep(f, db)
    [] f.req.op = "vote" -> VoteButtonStep(f, db)

\* the handler run from f to its response with no other request in between:
\* the store it leaves, its response and the calls to env.DB it made
RECURSIVE Run(_, _, _)
Run(f, db, calls) ==
  IF f.pc = Done THEN [db |-> db, resp |-> f.resp, calls |-> calls]
  ELSE Run(Step(f, db).f, Step(f, db).db, Append(calls, f.pc))

\* the handler of the request, run as a whole
Handler(req, ext, db) ==
  CASE req.op = "session-start" -> SESSION_START_COMMAND(db, req.user, req.option, ext)
    [] req.op = "session-end" -> SESSION_END_COMMAND(db, req.user)
    [] req.op = "vote-start" -> VOTE_START_COMMAND(db, req.user, req.url, ext)
    [] req.op = "vote-next" -> VOTE_NEXT_COMMAND(db, req.user)
    [] req.op = "vote-end" -> VOTE_END_COMMAND(db, req.user)
    [] req.op = "enter" -> ENTER_COMMAND(db, req.user)
    [] req.op = "exit" -> EXIT_COMMAND(db, req.user)
    [] req.op = "kick" -> KICK_COMMAND(db, req.user, req.target)
    [] req.op = "participants" -> PARTICIPANTS_COMMAND(db, req.user)
    [] req.op = "vote" -> VoteButton(db, req.user, req.customId)

\* P holds of every request, with everything the YouTube API can return to it
EveryRequest(P(_, _)) ==
  /\ \A caller \in Users, option \in {<<>>} \cup {<<url>> : url \in PlaylistUrls},
        items \in PlaylistResults :
       P([op |-> "session-start", user |-> caller, option |-> option], items)
  /\ \A caller \in Users, url \in VideoUrls, title \in {"Song X", "Song Y", "Unknown Song"} :
       P([op |-> "vote-start", user |-> caller, url |-> url], title)
  /\ \A caller \in Users,
        op \in {"session-end", "vote-next", "vote-end", "enter", "exit", "participants"} :
       P([op |-> op, user |-> caller], <<>>)
  /\ \A caller \in Users, target \in Users :
       P([op |-> "kick", user |-> caller, target |-> target], <<>>)
  /\ \A caller \in Users, customId \in CustomIds :
       P([op |-> "vote", user |-> caller, customId |-> customId], <<>>)

\* run alone, the steps of a handler leave the store and give the response
\* of the handler run as a whole
StepsAreHandler ==
  EveryRequest(LAMBDA req, ext :
    /\ Run(Start(req, ext), DB, <<>>).db = Handler(req, ext, DB).db
    /\ Run(Start(req, ext), DB, <<>>).resp = Handler(req, ext, DB).resp)

(***************************************************************************)
(* C13: within one request every get of the store comes before the first   *)
(* put or delete of that request: no request reads a key after it has      *)
(* started to write.                                                       *)
(***************************************************************************)
ReadsBeforeWrites(calls) ==
  \A i, j \in 1..Len(calls) :
    (i < j /\ calls[i].kind \in {"put", "delete"}) => calls[j].kind # "get"

C13_ReadValidateWrite ==
  EveryRequest(LAMBDA req, ext : ReadsBeforeWrites(Run(Start(req, ext), DB, <<>>).calls))

(***************************************************************************)
(* C21: a session-start, session-end, vote-start, vote-end, vote-next,     *)
(* kick or participants request by a caller who is not the manager is      *)
(* answered Forbidden with no call to the store made, whatever the store   *)
(* holds; an enter, an exit and a press of a vote button by such a caller  *)
(* are handled: they are never answered Forbidden and succeed where the    *)
(* checks of their handlers pass.                                          *)
(***************************************************************************)
ForbiddenBeforeStore(req, ext) ==
  LET r == Run(Start(req, ext), DB, <<>>)
  IN ~isManager(req.user) =>
       IF req.op \in {"session-start", "session-end", "vote-start", "vote-end",
                      "vote-next", "kick", "participants"}
       THEN r.resp.kind = "Forbidden" /\ r.calls = <<>> /\ r.db = DB
       ELSE /\ r.resp.kind # "Forbidden"
            /\ r.calls # <<>> \/ r.resp.kind = "Unknown"
            /\ (req.op = "enter" /\ SessionActive
                  /\ req.user \notin Range(SessionParticipants)) => r.resp.kind = "Joined"
            /\ (req.op = "exit" /\ SessionActive
                  /\ req.user \in Range(SessionParticipants)) => r.resp.kind = "Left"
            /\ (req.op = "vote" /\ req.customId.match
                  /\ VoteAnswer(req.user, req.customId.vid) = "Vote") =>
                 r.resp.kind \in {"VoteCast", "VoteRetracted"}

C21_ForbiddenBeforeStore == EveryRequest(ForbiddenBeforeStore)

\* a member who is not the manager has voted, and a kick of the manager by
\* that member is answered Forbidden
C21_Witness ==
  /\ last.req.op = "vote"
  /\ ~isManager(last.req.user)
  /\ last.req.user \in DOMAIN VotedUsers
  /\ includes(SessionParticipants, MANAGER_USER_ID)
  /\ KICK_COMMAND(DB, last.req.user, MANAGER_USER_ID).resp.kind = "Forbidden"

(***************************************************************************)
(* C22: a vote-end that is the next accepted request after a vote-start    *)
(* reports totalPoints = 0, voterCount = 0 and average = 0, with an empty  *)
(* snapshot as well, and participantCount = the number of participants the *)
(* vote-start read; History[trackId] gets nothing added to totalPoints and *)
(* voterCount and that number added to participantCount.                   *)
(***************************************************************************)
\* the three numbers of the track in history, zero without an entry
totalsOf(history, id) ==
  IF hasEntry(history, id)
  THEN [totalPoints |-> entryOf(history, id).totalPoints,
        voterCount |-> entryOf(history, id).voterCount,
        participantCount |-> entryOf(history, id).participantCount]
  ELSE [totalPoints |-> 0, voterCount |-> 0, participantCount |-> 0]

C22_EmptyRound ==
  [][(last.req.op = "vote-start" /\ Accepted("vote-end")) =>
       LET id == last.resp.id
       IN /\ last'.resp.totalPoints = 0
          /\ last'.resp.voterCount = 0
          /\ last'.resp.average = 0
          /\ ~last'.resp.high
          /\ last'.resp.participantCount = Cardinality(snapshot)
          /\ hasEntry(History', id)
          /\ totalsOf(History', id).totalPoints = totalsOf(History, id).totalPoints
          /\ totalsOf(History', id).voterCount = totalsOf(History, id).voterCount
          /\ totalsOf(History', id).participantCount
               = totalsOf(History, id).participantCount + Cardinality(snapshot)]_vars

\* a session's first track was started by vote-start with one participant and
\* ended with the next request
C22_Witness ==
  /\ last.req.op = "vote-end"
  /\ accepted = 3
  /\ played = <<>>
  /\ Len(SessionParticipants) = 1
  /\ last.resp.participantCount = 1
  /\ last.resp.voterCount = 0
  /\ Len(History) = 1

(***************************************************************************)
(* C23: an accepted vote-end raises the high-approval flag exactly when    *)
(* participantCount > 0 and totalPoints > participantCount, that is when   *)
(* the average is above 1.  The vote-end of a track with the eligible      *)
(* voters A and B and the votes A: 2 and B: 1 reports totalPoints = 3,     *)
(* voterCount = 2, participantCount = 2, the average 1.50 and the flag.    *)
(***************************************************************************)
\* the round of the scenario: both users eligible, one vote of 2, one of 1
ScenarioRound ==
  /\ Range(EligibleVoters) = Users
  /\ Len(EligibleVoters) = 2
  /\ DOMAIN VotedUsers = Users
  /\ VotedUsers[MANAGER_USER_ID] = 2
  /\ \A u \in Users \ {MANAGER_USER_ID} : VotedUsers[u] = 1

C23_HighApproval ==
  [][Accepted("vote-end") =>
       /\ last'.resp.high <=>
            (/\ Len(EligibleVoters) > 0
             /\ sumOver(DOMAIN VotedUsers, VotedUsers) > Len(EligibleVoters))
       /\ last'.resp.high => last'.resp.average > 100
       /\ last'.resp.average > 100 => last'.resp.high
       /\ ScenarioRound =>
            /\ last'.resp.totalPoints = 3
            /\ last'.resp.voterCount = 2
            /\ last'.resp.participantCount = 2
            /\ last'.resp.average = 150
            /\ last'.resp.high]_vars

\* the scenario: session-start, two enters, vote-start, two votes, vote-end
C23_Witness ==
  /\ last.req.op = "vote-end"
  /\ accepted = 6
  /\ played = <<>>
  /\ SessionActive
  /\ DOMAIN VotedUsers = Users
  /\ VotedUsers[MANAGER_USER_ID] = 2
  /\ last.resp.totalPoints = 3
  /\ last.resp.voterCount = 2
  /\ last.resp.participantCount = 2
  /\ last.resp.high

(***************************************************************************)
(* Interleaved requests.  The worker handles every request in its own      *)
(* invocation, and every `await env.DB...` lets the calls of another       *)
(* invocation in: SpecRace runs up to two handlers at a time, one call to  *)
(* env.DB per step, on the store of a session that requests handled one    *)
(* after the other have prepared.                                          *)
(*   frames   the two requests in flight (Idle or returned: pc = Done)     *)
(*   reads    what each of them has read from the store, by key            *)
(*   arrived  the number of requests that have arrived                     *)
(*   rounds   opened: the rounds begun for each track; merged: the number  *)
(*            of vote-ends the stored HISTORY holds of it; seen: that      *)
(*            number in the HISTORY a vote-end in flight has read          *)
(***************************************************************************)
ghosts == <<last, snapshot, late, tally, accepted, kicked, seeded, played, rejoined>>

UrlOf(id) == [match |-> TRUE, group |-> id]
ButtonOf(points, id) == [match |-> TRUE, points |-> points, vid |-> id]

RECURSIVE enterAll(_, _)
enterAll(db, users) ==
  IF users = <<>> THEN db
  ELSE enterAll(ENTER_COMMAND(db, Head(users)).db, Tail(users))

\* the store after session-start with the playlist items, the enters of the
\* users of entered, and then, if current, vote-start of track X and, if
\* voted, a press of its 2-point button by the manager
Prepared(items, entered, current, voted) ==
  LET started == SESSION_START_COMMAND([k \in Keys |-> Null], MANAGER_USER_ID,
                                       IF items = <<>> THEN <<>> ELSE <<UrlOf("PL1")>>,
                                       items).db
      joined == enterAll(started, entered)
      playing == IF current
                 THEN VOTE_START_COMMAND(joined, MANAGER_USER_ID, UrlOf(VidX),
                                         CatalogTitle(VidX)).db
                 ELSE joined
  IN IF current /\ voted
     THEN VoteButton(playing, MANAGER_USER_ID, ButtonOf(2, VidX)).db
     ELSE playing

InitRace ==
  /\ \E items \in {<<>>, CatalogPlaylist(MaxQueue)},
        entered \in {<<>>, <<"B">>, <<"A", "B">>},
        current \in BOOLEAN, voted \in BOOLEAN :
       /\ voted => current /\ includes(entered, MANAGER_USER_ID)
       /\ DB = Prepared(items, entered, current, voted)
       /\ rounds = [opened |-> [id \in VideoIds |-> IF current /\ id = VidX THEN 1 ELSE 0],
                    merged |-> NoMerges,
                    seen |-> [s \in Racers |-> NoMerges]]
  /\ frames = [s \in Racers |-> Idle]
  /\ reads = [s \in Racers |-> NothingRead]
  /\ arrived = 0
  /\ last = [req |-> [op |-> "none"], resp |-> Reply("none")]
  /\ snapshot = {}
  /\ late = {}
  /\ tally = NoRounds
  /\ accepted = 0
  /\ kicked = {}
  /\ seeded = <<>>
  /\ played = <<>>
  /\ rejoined = {}

\* a request arrives and its handler runs up to its first call to env.DB; the
\* requests that have returned are forgotten
Arrive(req, ext) ==
  LET f == Start(req, ext)
      free == {s \in Racers : frames[s].pc = Done}
  IN /\ arrived < MaxArrivals
     /\ f.pc # Done
     /\ free # {}
     /\ LET s == IF "p" \in free THEN "p" ELSE "q"
        IN frames' = [t \in Racers |-> IF t = s THEN f
                                       ELSE IF t \in free THEN Idle ELSE frames[t]]
     /\ arrived' = arrived + 1
     /\ UNCHANGED <<DB, reads, rounds, ghosts>>

\* the requests that can arrive, session-start and vote-start with what the
\* YouTube API returns to them; a manager-only command of a caller who is not
\* the manager is answered Forbidden before any call to env.DB, so it is never
\* in flight
SessionStartArrivals ==
  {<<[op |-> "session-start", user |-> caller,
      option |-> IF items = <<>> THEN <<>> ELSE <<UrlOf("PL1")>>], items>> :
     caller \in Users, items \in {<<>>, CatalogPlaylist(MaxQueue)}}
SessionEndArrivals == {[op |-> "session-end", user |-> caller] : caller \in Users}
VoteStartArrivals ==
  {<<[op |-> "vote-start", user |-> caller, url |-> UrlOf(id)], CatalogTitle(id)>> :
     caller \in Users, id \in VideoIds}
VoteNextArrivals == {[op |-> "vote-next", user |-> caller] : caller \in Users}
VoteEndArrivals == {[op |-> "vote-end", user |-> caller] : caller \in Users}
EnterArrivals == {[op |-> "enter", user |-> caller] : caller \in Users}
ExitArrivals == {[op |-> "exit", user |-> caller] : caller \in Users}
KickArrivals ==
  {[op |-> "kick", user |-> caller, target |-> target] : caller \in Users, target \in Users}
ParticipantsArrivals == {[op |-> "participants", user |-> caller] : caller \in Users}
VoteButtonArrivals ==
  {[op |-> "vote", user |-> caller, customId |-> ButtonOf(points, id)] :
     caller \in Users, points \in {1, 2}, id \in VideoIds}

SessionStartArrives == \E a \in SessionStartArrivals : Arrive(a[1], a[2])

SessionEndArrives == \E req \in SessionEndArrivals : Arrive(req, <<>>)

VoteStartArrives == \E a \in VoteStartArrivals : Arrive(a[1], a[2])

VoteNextArrives == \E req \in VoteNextArrivals : Arrive(req, <<>>)

VoteEndArrives == \E req \in VoteEndArrivals : Arrive(req, <<>>)

EnterArrives == \E req \in EnterArrivals : Arrive(req, <<>>)

ExitArrives == \E req \in ExitArrivals : Arrive(req, <<>>)

KickArrives == \E req \in KickArrivals : Arrive(req, <<>>)

ParticipantsArrives == \E req \in ParticipantsArrivals : Arrive(req, <<>>)

VoteButtonArrives == \E req \in VoteButtonArrivals : Arrive(req, <<>>)

\* the rounds after the call f.pc of the request in flight s
Track(s, f) ==
  CASE f.req.op = "vote-end" /\ f.pc = Call("get", "HISTORY") ->
         [rounds EXCEPT !.seen[s] = rounds.merged]
    [] f.req.op = "vote-end" /\ f.pc = Call("put", "HISTORY") ->
         [rounds EXCEPT !.merged = [rounds.seen[s] EXCEPT ![f.mem.songData.id] = @ + 1]]
    [] f.req.op \in {"vote-start", "vote-next"} /\ f.pc = Call("put", "CURRENT_SONG") ->
         [rounds EXCEPT !.opened[f.mem.id] = @ + 1]
    [] f.req.op = "session-start" /\ f.pc = Call("delete", "HISTORY") ->
         [rounds EXCEPT !.merged = NoMerges]
    [] OTHER -> rounds

\* the request in flight s makes its next call to env.DB and runs up to the
\* call after it, or to its return
StoreCall ==
  \E s \in Racers :
    LET f == frames[s]
        r == Step(f, DB)
        returns == r.f.pc = Done
        tracked == Track(s, f)
    IN /\ f.pc # Done
       /\ DB' = r.db
       /\ frames' = [frames EXCEPT ![s] = IF returns THEN [r.f EXCEPT !.mem = NoMem]
                                                      ELSE r.f]
       /\ reads' = [reads EXCEPT ![s] =
                      IF returns THEN NothingRead
                      ELSE IF f.pc.kind = "get"
                        THEN [@ EXCEPT ![f.pc.key] = get(DB, f.pc.key)]
                      ELSE @]
       /\ rounds' = IF returns THEN [tracked EXCEPT !.seen[s] = NoMerges] ELSE tracked
       /\ UNCHANGED <<arrived, ghosts>>

NextRace ==
  \/ SessionStartArrives
  \/ SessionEndArrives
  \/ VoteStartArrives
  \/ VoteNextArrives
  \/ VoteEndArrives
  \/ EnterArrives
  \/ ExitArrives
  \/ KickArrives
  \/ ParticipantsArrives
  \/ VoteButtonArrives
  \/ StoreCall

SpecRace == InitRace /\ [][NextRace]_vars

\* the request in flight s has returned with a response of the given kind
Returned(s, op, kind) ==
  /\ frames[s].req.op = op
  /\ frames[s].pc = Done
  /\ frames[s].resp.kind = kind

(***************************************************************************)
(* C24: when the calls of two requests interleave (two presses of a vote   *)
(* button, a kick and a press), the store keeps for every key the value    *)
(* of the last put: the only changes of the store are the puts and deletes *)
(* of the requests in flight, and the value a request writes to a key is   *)
(* the one it computes from its own input and from what it has itself read *)
(* from the store, whatever another request has written since.  The        *)
(* update of the earlier writer can be lost: the witness is a store that   *)
(* lacks a vote whose press was answered as cast.                          *)
(***************************************************************************)
\* the value the request req, to which the YouTube API returned ext and the
\* store rd, writes to the key k
Computed(req, ext, rd, k) ==
  LET participants == ParseOr(rd["SESSION_PARTICIPANTS"], <<>>)
      votedUsers == ParseOr(rd["VOTED_USERS"], EmptyObject)
      eligibleVoters == ParseOr(rd["ELIGIBLE_VOTERS"], <<>>)
      queue == ParseOr(rd["QUEUE"], <<>>)
      userId == IF req.op = "kick" THEN req.target ELSE req.user
  IN CASE req.op = "session-start" ->
            CASE k = "SESSION_ACTIVE" -> Lit("true")
              [] k = "SESSION_PARTICIPANTS" -> Json(<<>>)
              [] k = "QUEUE" -> Json(IF req.option # <<>> THEN ext ELSE <<>>)
              [] OTHER -> Null
       [] req.op = "session-end" -> Lit("false")
       [] req.op = "vote-start" ->
            CASE k = "CURRENT_SONG" -> Json(SongData(ext, getVideoId(req.url)))
              [] k = "VOTED_USERS" -> Json(EmptyObject)
              [] OTHER -> Json(participants)
       [] req.op = "vote-next" ->
            CASE k = "QUEUE" -> Json(Tail(queue))
              [] k = "CURRENT_SONG" -> Json(SongData(Head(queue).title, Head(queue).id))
              [] k = "VOTED_USERS" -> Json(EmptyObject)
              [] OTHER -> Json(participants)
       [] req.op = "vote-end" ->
            CASE k = "HISTORY" ->
                   Json(mergeHistory(ParseOr(rd["HISTORY"], <<>>), rd["CURRENT_SONG"].json,
                                     sumValues(votedUsers), Cardinality(DOMAIN votedUsers),
                                     Len(eligibleVoters)))
              [] OTHER -> Lit("")
       [] req.op = "enter" -> Json(Append(participants, req.user))
       [] req.op \in {"exit", "kick"} ->
            CASE k = "SESSION_PARTICIPANTS" -> Json(filterOut(participants, userId))
              [] k = "ELIGIBLE_VOTERS" -> Json(filterOut(eligibleVoters, userId))
              [] OTHER -> Json(deleteProp(votedUsers, userId))
       [] req.op = "vote" -> Json(toggleVote(votedUsers, req.user, req.customId.points))

\* the request in flight s is about to write the key k
Writes(s, k) == frames[s].pc = Call("put", k) \/ frames[s].pc = Call("delete", k)

C24_LastWriterWins ==
  [][\A k \in Keys :
       DB'[k] # DB[k] =>
         \E s \in Racers :
           /\ Writes(s, k)
           /\ frames'[s] # frames[s]
           /\ DB'[k] = Computed(frames[s].req, frames[s].mem.ext, reads[s], k)]_vars

\* both presses were answered as cast, and the store holds one of the two votes
C24_Witness ==
  /\ Returned("p", "vote", "VoteCast")
  /\ Returned("q", "vote", "VoteCast")
  /\ frames["p"].req.user # frames["q"].req.user
  /\ CurrentSongSet
  /\ Cardinality(DOMAIN VotedUsers) = 1

(***************************************************************************)
(* C25: a press of a vote button whose calls interleave with a vote-end    *)
(* and the vote-start or vote-next after it is counted for the track of    *)
(* the button or dropped: the put of the press never leaves the vote of    *)
(* the user in VOTED_USERS of a track other than the one of the button     *)
(* that a vote-start or vote-next has started.                             *)
(***************************************************************************)
\* the request in flight s makes the call to env.DB it is waiting at
Calls(s, op, kind, key) ==
  /\ frames[s].req.op = op
  /\ frames[s].pc = Call(kind, key)
  /\ frames'[s] # frames[s]

\* no vote-start or vote-next is in flight: the current track has been started
\* with all its writes
TrackStarted ==
  /\ CurrentSongSet
  /\ \A s \in Racers :
       frames[s].pc # Done => frames[s].req.op \notin {"vote-start", "vote-next"}

\* every round begun for the track id has been merged into HISTORY by a vote-end
RoundsClosed(id) == rounds.opened[id] > 0 /\ rounds.merged[id] = rounds.opened[id]

C25_VoteStaysWithItsTrack ==
  [][\A s \in Racers :
       (/\ Calls(s, "vote", "put", "VOTED_USERS")
        /\ RoundsClosed(frames[s].req.customId.vid)
        /\ TrackStarted
        /\ get(DB', "CURRENT_SONG").json.id # frames[s].req.customId.vid)
       => frames[s].req.user \notin DOMAIN VotedUsers']_vars

(***************************************************************************)
(* C26: when the calls of a press of a vote button by u interleave with    *)
(* those of an exit by u or of a kick of u, u is not in VOTED_USERS once   *)
(* both requests have returned and u has left: no user outside the         *)
(* eligible voters has a vote in the store.                                *)
(***************************************************************************)
\* the exit of u or the kick of u that is in flight as s has removed u
HasLeft(s, u) ==
  \/ Returned(s, "exit", "Left") /\ frames[s].req.user = u
  \/ Returned(s, "kick", "Kicked") /\ frames[s].req.target = u

C26_NoVoteAfterLeaving ==
  \A s, t \in Racers, u \in Users :
    (/\ HasLeft(s, u)
     /\ frames[t].req.op = "vote"
     /\ frames[t].req.user = u
     /\ frames[t].pc = Done)
    => u \notin DOMAIN VotedUsers

(***************************************************************************)
(* C27: every round is merged into HISTORY once.  When the calls of two    *)
(* vote-ends of the same current track, which has eligible voters,         *)
(* interleave, the entry of the track in HISTORY holds no more merges than *)
(* rounds were begun for the track.                                        *)
(***************************************************************************)
\* the request in flight s is a vote-end that has read the current track
ClosesRound(s) ==
  /\ frames[s].req.op = "vote-end"
  /\ \/ frames[s].pc # Done /\ frames[s].pc # Call("get", "CURRENT_SONG")
     \/ Returned(s, "vote-end", "VoteResult")

C27_RoundMergedOnce ==
  (EligibleVoters # <<>> /\ \A s \in Racers : ClosesRound(s)) =>
    \A id \in VideoIds : rounds.merged[id] <= rounds.opened[id]

(***************************************************************************)
(* C28: no queued track is lost.  When the calls of two vote-nexts         *)
(* interleave and both have returned a track taken from the queue, each of *)
(* the two tracks is the current track or has had its round closed by a    *)
(* vote-end: none was taken from the queue and replaced as current track   *)
(* without a vote.                                                         *)
(***************************************************************************)
C28_NoQueuedTrackLost ==
  (\A s \in Racers : Returned(s, "vote-next", "NowPlaying")) =>
    \A s \in Racers :
      \/ CurrentSongSet /\ get(DB, "CURRENT_SONG").json.id = frames[s].resp.id
      \/ RoundsClosed(frames[s].resp.id)

(***************************************************************************)
(* C29: SESSION_PARTICIPANTS and ELIGIBLE_VOTERS never hold the same user  *)
(* id twice, whatever requests interleave, two enters of the same user or  *)
(* of different users included.                                            *)
(***************************************************************************)
NoDuplicates(arr) == \A i, j \in 1..Len(arr) : arr[i] = arr[j] => i = j

C29_NoDuplicateUsers ==
  /\ NoDuplicates(SessionParticipants)
  /\ NoDuplicates(EligibleVoters)

\* two overlapping enters of the same user were both answered Joined, and the
\* participants hold the user once
C29_Witness ==
  /\ Returned("p", "enter", "Joined")
  /\ Returned("q", "enter", "Joined")
  /\ frames["p"].req.user = frames["q"].req.user
  /\ includes(SessionParticipants, frames["p"].req.user)
  /\ Len(SessionParticipants) = Cardinality(Users)

(***************************************************************************)
(* C30: a user who was a participant when the current track was started,   *)
(* has left by exit or kick and has entered again while that track is      *)
(* still current gets NotEligible for every press of a button of the       *)
(* track, and the press changes no key: the user is a participant again    *)
(* but stays out of EligibleVoters, and the vote the user had before       *)
(* leaving stays out of VotedUsers.                                        *)
(***************************************************************************)
C30_RejoinStaysIneligible ==
  CurrentSongSet =>
    \A u \in rejoined :
      /\ u \in Range(SessionParticipants)
      /\ u \notin Range(EligibleVoters)
      /\ u \notin DOMAIN VotedUsers
      /\ \A p \in {1, 2} :
           /\ VoteButton(DB, u, CurrentButton(p)).resp.kind = "NotEligible"
           /\ VoteButton(DB, u, CurrentButton(p)).db = DB

\* the user voted on the current track, was kicked and has entered again
C30_Witness ==
  /\ CurrentSongSet
  /\ last.req.op = "enter"
  /\ last.req.user \in rejoined \cap kicked
  /\ VoteButton(DB, last.req.user, CurrentButton(2)).resp.kind = "NotEligible"

(***************************************************************************)
(* C31: every value stored in VOTED_USERS is 1 or 2; so the totals of      *)
(* every vote-end result and of every History entry satisfy                *)
(* voterCount <= totalPoints <= 2 * voterCount, and, requests being        *)
(* handled one at a time, totalPoints <= 2 * participantCount.             *)
(***************************************************************************)
PointsBounded(t) ==
  /\ t.voterCount <= t.totalPoints
  /\ t.totalPoints <= 2 * t.voterCount
  /\ t.totalPoints <= 2 * t.participantCount

C31_PointsBounded ==
  /\ \A u \in DOMAIN VotedUsers : VotedUsers[u] \in {1, 2}
  /\ last.resp.kind = "VoteResult" => PointsBounded(last.resp)
  /\ CurrentSongSet => PointsBounded(VOTE_END_COMMAND(DB, MANAGER_USER_ID).resp)
  /\ \A i \in 1..Len(History) : PointsBounded(History[i])

\* every eligible voter gave two points: the round's result and the track's
\* History entry meet both upper bounds
C31_Witness ==
  /\ last.resp.kind = "VoteResult"
  /\ last.resp.voterCount = Cardinality(Users)
  /\ last.resp.totalPoints = 2 * last.resp.voterCount
  /\ last.resp.totalPoints = 2 * last.resp.participantCount
  /\ \E i \in 1..Len(History) : History[i].totalPoints = 2 * History[i].participantCount
                                 /\ History[i].voterCount > 0

(***************************************************************************)
(* C32: the summary of an accepted session-end has one line for each track *)
(* whose vote-end was accepted since the most recent accepted              *)
(* session-start, made of the totals of those rounds alone, and no other   *)
(* line: a round closed in an earlier session, or before any session was   *)
(* started, is in no later History and in no summary.                      *)
(***************************************************************************)
\* the rounds closed since the most recent session-start: SESSION_ACTIVE is
\* written by session-start and session-end alone, so a session-end accepted
\* with SESSION_ACTIVE other than 'true' follows no session-start
RoundsOfSession == IF SessionActive THEN tally ELSE NoRounds

\* the line of the summary for the track id with the totals t
lineOf(history, id, t) ==
  summaryLine([title |-> entryOf(history, id).title,
               totalPoints |-> t[id].totalPoints,
               voterCount |-> t[id].voterCount,
               participantCount |-> t[id].participantCount])

SummaryIsOf(summary, history, t) ==
  /\ Len(summary) = Cardinality({id \in VideoIds : t[id].rounds > 0})
  /\ \A id \in VideoIds :
       t[id].rounds > 0 =>
         /\ hasEntry(history, id)
         /\ \E i \in 1..Len(summary) : summary[i] = lineOf(history, id, t)

C32_SummaryOfSession ==
  [][Accepted("session-end") =>
       SummaryIsOf(last'.resp.summary, History, RoundsOfSession)]_vars

(***************************************************************************)
(* C33: an accepted request changes no key but those of its operation: a   *)
(* vote VOTED_USERS; enter SESSION_PARTICIPANTS; vote-end HISTORY and      *)
(* CURRENT_SONG; vote-start CURRENT_SONG, VOTED_USERS and ELIGIBLE_VOTERS; *)
(* vote-next these three and QUEUE; session-end SESSION_ACTIVE; exit and   *)
(* kick SESSION_PARTICIPANTS, ELIGIBLE_VOTERS and VOTED_USERS;             *)
(* participants none.                                                      *)
(***************************************************************************)
OwnKeys(op) ==
  CASE op = "vote" -> {"VOTED_USERS"}
    [] op = "enter" -> {"SESSION_PARTICIPANTS"}
    [] op = "vote-end" -> {"HISTORY", "CURRENT_SONG"}
    [] op = "vote-start" -> {"CURRENT_SONG", "VOTED_USERS", "ELIGIBLE_VOTERS"}
    [] op = "vote-next" -> {"CURRENT_SONG", "VOTED_USERS", "ELIGIBLE_VOTERS", "QUEUE"}
    [] op = "session-end" -> {"SESSION_ACTIVE"}
    [] op \in {"exit", "kick"} -> {"SESSION_PARTICIPANTS", "ELIGIBLE_VOTERS", "VOTED_USERS"}
    [] op = "participants" -> {}
    [] OTHER -> Keys

C33_OwnKeysOnly ==
  [][\A op \in {"vote", "enter", "vote-end", "vote-start", "vote-next", "session-end",
                 "exit", "kick", "participants"} :
       Accepted(op) => \A k \in Keys \ OwnKeys(op) : DB'[k] = DB[k]]_vars

\* a kick took a voter of the current track out of its three keys while the
\* queue and the history hold tracks
C33_Witness ==
  /\ last.resp.kind = "Kicked"
  /\ last.req.target \in kicked
  /\ CurrentSongSet
  /\ Queue # <<>>
  /\ History # <<>>

====
